---- MODULE Spec2Model ----
(***************************************************************************)
(* Model of the diff printer of pretty_assertions                          *)
(* (src/pretty_assertions/src/printer.rs): write_lines walks the line      *)
(* level edit script with a LatentDeletion buffer and hands a single       *)
(* removed line followed by a single inserted line to write_inline_diff,   *)
(* which writes through an InlineWriter that groups characters by style.   *)
(*                                                                         *)
(* A text is a sequence of one-character strings, a line is a text without *)
(* "\n".  The sink f is the sequence of the pieces written to it: one      *)
(* piece per character, per style escape and per line terminator.          *)
(***************************************************************************)
EXTENDS Integers, Sequences, FiniteSets, TLC

\* ------------------------------------------------------------------ bounds
\* Most characters the two input texts have together.
MaxTotal == 5
\* Most characters the two input texts have together when the sink is faulty.
MaxTotalFaulty == 4
\* Most characters the two lines handed to write_inline_diff on its own have
\* together.
MaxPair == 5
\* Most characters the two texts of a Comparison have together.
MaxTotalDisplay == 3
\* Most characters the two texts have together when write_lines is called
\* again, and the most calls made with them.
MaxTotalTwice == 2
MaxCalls == 3


\* Most characters the two operands of an assertion macro have together in
\* the texts that are compared, and the most pieces of a format string.
MaxTotalAssert == 2
MaxFmt == 2


\* Most characters the two texts of a comparison of the configurable variant
\* have together.
MaxTotalConfig == 2

\* Total length of the two texts where termination of the walk is checked.
MaxTotalLive == 3

\* A LatentDeletion used on its own: the longest line handed to set, the
\* highest count set is called at, and the number of lines flush may write.
MaxLatentLine == 1
MaxCount == 3
MaxFlushed == 2

\* ------------------------------------------------------- program constants
SIGN_RIGHT == ">"
SIGN_LEFT == "<"
RED_LIGHT == "ESC[31m"
GREEN_LIGHT == "ESC[32m"
RED_HEAVY == "ESC[1;48;5;52;31m"
GREEN_HEAVY == "ESC[1;48;5;22;32m"
RESET == "ESC[0m"
BOLD == "ESC[1m"
NL == "\n"

\* yansi styles used by the printer; Style::new() is the default style.
StyleDefault == "default"
Red == "Red"
Green == "Green"
RedHeavy == "Red.on_fixed(52).bold()"
GreenHeavy == "Green.on_fixed(22).bold()"

\* Style::fmt_prefix: the default style writes nothing.
fmt_prefix(style) ==
    CASE style = Red -> <<RED_LIGHT>>
      [] style = Green -> <<GREEN_LIGHT>>
      [] style = RedHeavy -> <<RED_HEAVY>>
      [] style = GreenHeavy -> <<GREEN_HEAVY>>
      [] OTHER -> <<>>

\* Style::fmt_suffix: the default style writes nothing, any other a reset.
fmt_suffix(style) == IF style = StyleDefault THEN <<>> ELSE <<RESET>>

\* ------------------------------------------------------------------ inputs
Letters == {"a", "b"}
Alphabet == Letters \cup {NL}
SeqsUpTo(S, n) == UNION {[1..k -> S] : k \in 0..n}
Texts == SeqsUpTo(Alphabet, MaxTotal)
Lines == SeqsUpTo(Letters, MaxPair)

\* Option<T>: None is the empty sequence, Some(x) the one-element sequence.
None == <<>>
Some(x) == <<x>>

\* ------------------------------------------------- the diff crate's results
Left(v) == [tag |-> "Left", value |-> v]
Right(v) == [tag |-> "Right", value |-> v]
Both(v) == [tag |-> "Both", value |-> v]

\* The lines of a text as diff::lines sees them: the empty text has no line,
\* "\n" separates lines and a trailing "\n" yields a last empty line.
RECURSIVE SplitNL(_)
SplitNL(text) ==
    IF \A i \in 1..Len(text) : text[i] # NL
    THEN <<text>>
    ELSE LET i == CHOOSE j \in 1..Len(text) :
                      text[j] = NL /\ \A k \in 1..(j - 1) : text[k] # NL
         IN <<SubSeq(text, 1, i - 1)>> \o SplitNL(SubSeq(text, i + 1, Len(text)))

lines(text) == IF text = <<>> THEN <<>> ELSE SplitNL(text)

\* Every edit script between two sequences: Left and Both entries spell l,
\* Right and Both entries spell r, in order.
RECURSIVE EditScripts(_, _)
EditScripts(l, r) ==
    IF l = <<>> /\ r = <<>>
    THEN {<<>>}
    ELSE (IF l # <<>>
          THEN {<<Left(Head(l))>> \o s : s \in EditScripts(Tail(l), r)}
          ELSE {})
         \cup
         (IF r # <<>>
          THEN {<<Right(Head(r))>> \o s : s \in EditScripts(l, Tail(r))}
          ELSE {})
         \cup
         (IF l # <<>> /\ r # <<>> /\ Head(l) = Head(r)
          THEN {<<Both(Head(l))>> \o s : s \in EditScripts(Tail(l), Tail(r))}
          ELSE {})

\* ::diff::lines(left, right) and ::diff::chars(left, right): some edit script
\* between the lines of the two texts, between the characters of the two lines.
diff_lines(l, r) == EditScripts(lines(l), lines(r))
chars(l, r) == EditScripts(l, r)

\* ::diff::lines as the printer's tests pin it down for texts ending in "\n":
\* the script is one between the lines before the trailing "\n" (str::lines),
\* followed by one last entry for the trailing empty line, Both if the two
\* texts end in "\n", Left or Right if only the left or only the right does.
EndsNL(text) == text # <<>> /\ text[Len(text)] = NL
str_lines(text) ==
    IF EndsNL(text) THEN SubSeq(lines(text), 1, Len(lines(text)) - 1) ELSE lines(text)
trailing_entry(l, r) ==
    CASE EndsNL(l) /\ EndsNL(r) -> <<Both(<<>>)>>
      [] EndsNL(l) -> <<Left(<<>>)>>
      [] EndsNL(r) -> <<Right(<<>>)>>
      [] OTHER -> <<>>
diff_lines_trailing(l, r) ==
    {s \o trailing_entry(l, r) : s \in EditScripts(str_lines(l), str_lines(r))}

\* ------------------------------------------------------------------- state
VARIABLES
    left,               \* write_lines' argument left
    right,              \* write_lines' argument right
    diff,               \* let diff = ::diff::lines(left, right)
    pos,                \* changes: index of the entry changes.next() yields
    previous_deletion,  \* LatentDeletion {value, count}
    f,                  \* the pieces the sink has accepted
    calls,              \* number of writes made on the sink
    faulty,             \* whether the sink may refuse a write
    result,             \* "running", or write_lines' return value
    inlined,            \* the calls of write_inline_diff so far: the index of
                        \* the Inserted entry, the arguments, the character
                        \* script, what the call wrote and how it returned
    earlier,            \* the calls of write_lines on these texts that have
                        \* returned: whether Ok, and if so what the call
                        \* wrote and the character scripts ::diff::chars gave
    assertion,          \* the assertion macro being evaluated, if the texts
                        \* are the operands of one: its extra arguments, what
                        \* the operands' == returned, the Comparison built and
                        \* the bindings handed to a derived macro's body
    config,             \* the Config a comparison of the configurable variant
                        \* is rendered with
    returned            \* the call made last on a LatentDeletion used on its
                        \* own: the method, whether it returned without an
                        \* Err, and the Option take returned

vars == <<left, right, diff, pos, previous_deletion, f, calls, faulty, result,
          inlined, earlier, assertion, config, returned>>

\* Config::default(): the labels "left" and "right", the markers and the
\* styles the printer has built in, no label override.
Config_default ==
    [auto_label |-> FALSE,
     default_label_left |-> "left", default_label_right |-> "right",
     prefix |-> " ", prefix_left |-> SIGN_LEFT, prefix_right |-> SIGN_RIGHT,
     style |-> StyleDefault, style_left |-> Red, style_right |-> Green,
     style_left_diff |-> RedHeavy, style_right_diff |-> GreenHeavy,
     maybe_label_left |-> None, maybe_label_right |-> None]

\* No assertion macro is involved: the printer is called directly.
NoAssertion == [macro |-> "none"]

\* No method of a LatentDeletion has been called from outside write_lines.
NoCall == [call |-> "none", ok |-> TRUE, taken |-> None]

\* ------------------------------------------------------------------ the sink
\* The state threaded through the body of a handler: the sink (f, room left
\* before it refuses with a negative room for a sink that never does, calls,
\* err once a write has returned Err), the LatentDeletion and the
\* InlineWriter's style.  The `?` after a call returns the Err at once: every
\* operation below leaves a state with err set as it is, so that the code
\* after a failed call has no effect.

\* One fmt::Write::write_str call.
write_str(st, piece) ==
    IF st.room = 0 \/ st.err
    THEN [st EXCEPT !.err = TRUE, !.calls = @ + 1]
    ELSE [st EXCEPT !.f = Append(@, piece),
                    !.room = IF @ < 0 THEN @ ELSE @ - 1,
                    !.calls = @ + 1]

\* write!(f, ...)?: the pieces in order, stopping at the first Err.
RECURSIVE write(_, _)
write(st, pieces) ==
    IF pieces = <<>> \/ st.err
    THEN st
    ELSE write(write_str(st, Head(pieces)), Tail(pieces))


\* Mutant: the painted text is written without the reset that closes it.
paint_no_suffix(st, style, sign, value) ==
    write(st, fmt_prefix(style) \o <<sign>> \o value)

\* paint!(f, style, "{}{}", sign, value)?
paint(st, style, sign, value) ==
    write(st, fmt_prefix(style) \o <<sign>> \o value \o fmt_suffix(style))

\* writeln!(f)?
writeln(st) == write(st, <<NL>>)

\* ------------------------------------------------------------- write_header
\* The pieces of the header line: "Diff" bold, '<' in red lingering over
\* "left", which resets; "right" in green lingering over '>', which resets.
HEADER ==
    <<BOLD, "Diff", RESET, " ", RED_LIGHT, SIGN_LEFT, " ", "left", RESET, " / ",
      GREEN_LIGHT, "right", " ", SIGN_RIGHT, RESET, " :", NL>>

\* writeln!(f, "{} {} {} / {} {} :", ...)
write_header(st) == write(st, HEADER)

\* Mutant: the result of write_header is dropped and write_lines is called.
header_result_dropped(st) == "running"

\* printer::write_header(f)?: an Err is what fmt returns, otherwise fmt goes
\* on to call write_lines.
header_result(st) == IF st.err THEN "Err" ELSE "running"

\* ---------------------------------------------------------- LatentDeletion
LatentDeletion_default == [value |-> None, count |-> 0]

\* self.value = Some(value); self.count += 1
LatentDeletion_set(st, value) ==
    IF st.err THEN st ELSE [st EXCEPT !.value = Some(value), !.count = @ + 1]

\* Mutant: take hands out the value whatever the count.
take_ignores_count(st) ==
    IF st.value # None
    THEN [ret |-> st.value, st |-> [st EXCEPT !.value = None]]
    ELSE [ret |-> None, st |-> st]

\* Mutant: take returns the value and leaves it in place.
take_leaves_value(st) ==
    IF st.count = 1
    THEN [ret |-> st.value, st |-> st]
    ELSE [ret |-> None, st |-> st]


\* Mutant: take with a count other than 1 returns None and drops the value.
take_drops_value(st) ==
    IF st.count = 1
    THEN [ret |-> st.value, st |-> [st EXCEPT !.value = None]]
    ELSE [ret |-> None, st |-> [st EXCEPT !.value = None]]

\* take: ret is the Option it returns, st the buffer it leaves.
LatentDeletion_take(st) ==
    IF st.count = 1
    THEN [ret |-> st.value, st |-> [st EXCEPT !.value = None]]
    ELSE [ret |-> None, st |-> st]


\* Mutant: the value is left in the slot after it has been written.
clear_value_skipped(st) == st

\* self.value = None
clear_value(st) == IF st.err THEN st ELSE [st EXCEPT !.value = None]

\* The text of the pending line, empty if there is none.
pending_text(st) == IF st.value # None THEN st.value[1] ELSE <<>>

\* Mutant: flush manufactures a blank removed line when no value is set.
flush_writes_blank(st) ==
    IF st.err THEN st
    ELSE [clear_value(writeln(paint(st, Red, SIGN_LEFT, pending_text(st))))
              EXCEPT !.count = IF st.value # None THEN @ ELSE 0]

\* Mutant: flush writes the pending line without the removal style.
flush_unpainted(st) ==
    IF st.err THEN st
    ELSE IF st.value # None
    THEN clear_value(write(st, <<SIGN_LEFT>> \o st.value[1] \o <<NL>>))
    ELSE [st EXCEPT !.count = 0]

\* Mutant: flush writes the value and leaves it set.
flush_keeps_value(st) ==
    IF st.err THEN st
    ELSE IF st.value # None
    THEN writeln(paint(st, Red, SIGN_LEFT, st.value[1]))
    ELSE [st EXCEPT !.count = 0]

\* Mutant: flush treats a pending empty line as nothing to write.
flush_skips_empty(st) ==
    IF st.err THEN st
    ELSE IF st.value # None /\ st.value[1] # <<>>
    THEN clear_value(writeln(paint(st, Red, SIGN_LEFT, st.value[1])))
    ELSE [clear_value(st) EXCEPT !.count = IF st.value # None THEN @ ELSE 0]

\* Mutant: flush resets the count also when it has written the value.
flush_always_resets_count(st) ==
    IF st.err THEN st
    ELSE IF st.value # None
    THEN [clear_value(writeln(paint(st, Red, SIGN_LEFT, st.value[1])))
              EXCEPT !.count = 0]
    ELSE [st EXCEPT !.count = 0]


\* Mutant: flush leaves the count as it is when no value is set.
flush_never_resets_count(st) ==
    IF st.err THEN st
    ELSE IF st.value # None
    THEN clear_value(writeln(paint(st, Red, SIGN_LEFT, st.value[1])))
    ELSE st

LatentDeletion_flush(st) ==
    IF st.err THEN st
    ELSE IF st.value # None
    THEN clear_value(writeln(paint(st, Red, SIGN_LEFT, st.value[1])))
    ELSE [st EXCEPT !.count = 0]

\* ------------------------------------------------------------- InlineWriter
\* self.style = style
set_style(st, style) == IF st.err THEN st ELSE [st EXCEPT !.style = style]

\* Mutant: a new style is opened without closing the previous one.
write_with_style_no_close(st, c, style) ==
    IF st.err THEN st
    ELSE IF style = st.style
    THEN write(st, <<c>>)
    ELSE set_style(write(write(st, fmt_prefix(style)), <<c>>), style)

\* Mutant: every character closes the current style and opens its own.
write_with_style_per_char(st, c, style) ==
    IF st.err THEN st
    ELSE set_style(
             write(write(write(st, fmt_suffix(st.style)), fmt_prefix(style)), <<c>>),
             style)

\* InlineWriter::write_with_style: st carries the writer's current style.
write_with_style(st, c, style) ==
    IF st.err THEN st
    ELSE IF style = st.style
    THEN write(st, <<c>>)
    ELSE set_style(
             write(write(write(st, fmt_suffix(st.style)), fmt_prefix(style)), <<c>>),
             style)

\* Mutant: finish ends the line without closing the open style.
finish_no_suffix(st) ==
    IF st.err THEN st ELSE set_style(writeln(st), StyleDefault)

\* Mutant: finish drops the result of closing the style and goes on writing.
finish_ignores_err(st) ==
    IF st.err THEN st
    ELSE set_style(write_str(write(st, fmt_suffix(st.style)), NL), StyleDefault)


\* Mutant: finish ends the line and keeps the writer's style as it was.
finish_keeps_style(st) ==
    IF st.err THEN st ELSE writeln(write(st, fmt_suffix(st.style)))

\* InlineWriter::finish
finish(st) ==
    IF st.err THEN st
    ELSE set_style(writeln(write(st, fmt_suffix(st.style))), StyleDefault)


\* Mutant: an entry that is skipped on a line closes the style open there.
write_change_skipped_closes(st, change, side, light, heavy) ==
    CASE change.tag = "Both" -> write_with_style(st, change.value, light)
      [] change.tag = side -> write_with_style(st, change.value, heavy)
      [] OTHER -> set_style(write(st, fmt_suffix(st.style)), StyleDefault)

\* One entry of the character script on one side: an entry tagged Both is
\* written light, an entry tagged `side` heavy, any other is skipped.
write_change(st, change, side, light, heavy) ==
    CASE change.tag = "Both" -> write_with_style(st, change.value, light)
      [] change.tag = side -> write_with_style(st, change.value, heavy)
      [] OTHER -> st

\* for change in diff.iter() { ... }
RECURSIVE write_chars(_, _, _, _, _)
write_chars(st, cs, side, light, heavy) ==
    IF cs = <<>> \/ st.err
    THEN st
    ELSE write_chars(write_change(st, Head(cs), side, light, heavy),
                     Tail(cs), side, light, heavy)

\* Mutant: the left line emphasises the inserted characters.
write_left_line_inserted(st, cs) ==
    finish(write_chars(write_with_style(set_style(st, StyleDefault), SIGN_LEFT, Red),
                       cs, "Right", Red, RedHeavy))

\* The left line of write_inline_diff, written with a fresh InlineWriter.
write_left_line(st, cs) ==
    finish(write_chars(write_with_style(set_style(st, StyleDefault), SIGN_LEFT, Red),
                       cs, "Left", Red, RedHeavy))

\* Mutant: the right line emphasises the unchanged characters.
write_right_line_swapped(st, cs) ==
    finish(write_chars(write_with_style(st, SIGN_RIGHT, Green),
                       cs, "Right", GreenHeavy, Green))

\* The right line of write_inline_diff.
write_right_line(st, cs) ==
    finish(write_chars(write_with_style(st, SIGN_RIGHT, Green),
                       cs, "Right", Green, GreenHeavy))

\* Mutant: the right line is written before the left line.
write_inline_diff_right_first(st, cs) ==
    write_left_line(write_right_line(st, cs), cs)

\* write_inline_diff, given the character script cs = ::diff::chars(left, right).
write_inline_diff(st, cs) == write_right_line(write_left_line(st, cs), cs)

\* --------------------------------------------------------------- write_lines
\* The handler state at the start of a step, with `room` writes left before
\* the sink refuses.
Enter(room) ==
    [f |-> f, room |-> room, err |-> FALSE, calls |-> calls,
     value |-> previous_deletion.value, count |-> previous_deletion.count,
     style |-> StyleDefault]

\* Mutant: the context line is written without flushing the pending deletion.
arm_Both_no_flush(st, value) == write(st, <<" ">> \o value \o <<NL>>)

\* Mutant: the context line is painted like an added line without a marker.
arm_Both_styled(st, value) ==
    writeln(paint(LatentDeletion_flush(st), Green, " ", value))

\* Mutant: the context line is written without its leading space.
arm_Both_no_prefix(st, value) ==
    write(LatentDeletion_flush(st), value \o <<NL>>)

\* (Both(value, _), _) => flush, then the context line.
arm_Both(st, value) ==
    write(LatentDeletion_flush(st), <<" ">> \o value \o <<NL>>)


\* Mutant: a removed line arriving while one is pending is joined to it with
\* a line separator instead of flushing the pending one.
arm_Left_accumulates(st, deleted) ==
    IF st.err \/ st.value = None
    THEN LatentDeletion_set(LatentDeletion_flush(st), deleted)
    ELSE [st EXCEPT !.value = Some(st.value[1] \o <<NL>> \o deleted)]


\* Mutant: the removed line is written as soon as its entry is handled.
arm_Left_writes_now(st, deleted) ==
    LatentDeletion_flush(LatentDeletion_set(LatentDeletion_flush(st), deleted))

\* (Left(deleted), _) => flush, then set.
arm_Left(st, deleted) == LatentDeletion_set(LatentDeletion_flush(st), deleted)


\* Mutant: the added line is written before the pending removed line.
plain_insert_no_flush(st, inserted) ==
    writeln(paint(st, Green, SIGN_RIGHT, inserted))

\* flush, paint!(f, Green, ...), writeln!(f): a plain added line.
plain_insert(st, inserted) ==
    writeln(paint(LatentDeletion_flush(st), Green, SIGN_RIGHT, inserted))

\* Mutant: the inline diff reads the pending value without taking it.
arm_Right_inline_peeks(st, cs) == write_inline_diff(st, cs)

\* (Right(inserted), _) with take() = Some(deleted) and character script cs.
arm_Right_inline(st, cs) == write_inline_diff(LatentDeletion_take(st).st, cs)


\* Mutant: when take() gives nothing the added line is written without the
\* flush, so a pending line of a longer run stays pending.
arm_Right_plain_no_flush(st, inserted) ==
    writeln(paint(LatentDeletion_take(st).st, Green, SIGN_RIGHT, inserted))

\* (Right(inserted), _) with take() = None.
arm_Right_plain(st, inserted) == plain_insert(LatentDeletion_take(st).st, inserted)

\* The step's effect on the variables: st is the handler state it ended in.
Commit(st, consumed) ==
    /\ f' = st.f
    /\ calls' = st.calls
    /\ previous_deletion' = [value |-> st.value, count |-> st.count]
    /\ pos' = pos + consumed
    /\ result' = IF st.err THEN "Err" ELSE result

\* The sink accepts `room` further pieces: all n of the step if it is sound.
Rooms(n) == IF faulty THEN 0..n ELSE {n}

HasNext == result = "running" /\ pos <= Len(diff)

\* Mutant: the walk does not look at the following entry.
PeekIsRight_never == FALSE

\* changes.peek() is Some(Right(_))
PeekIsRight == pos + 1 <= Len(diff) /\ diff[pos + 1].tag = "Right"

HandleBoth ==
    /\ HasNext
    /\ diff[pos].tag = "Both"
    /\ LET n == Len(arm_Both(Enter(-1), diff[pos].value).f) - Len(f)
       IN \E room \in Rooms(n) : Commit(arm_Both(Enter(room), diff[pos].value), 1)
    /\ UNCHANGED <<left, right, diff, faulty, inlined, earlier, assertion, config,
                   returned>>

HandleLeft ==
    /\ HasNext
    /\ diff[pos].tag = "Left"
    /\ LET n == Len(arm_Left(Enter(-1), diff[pos].value).f) - Len(f)
       IN \E room \in Rooms(n) : Commit(arm_Left(Enter(room), diff[pos].value), 1)
    /\ UNCHANGED <<left, right, diff, faulty, inlined, earlier, assertion, config,
                   returned>>


\* Mutant: peeking at the following Inserted entry takes it off the iterator.
HandleRightFollowed_consumes_peek ==
    /\ HasNext
    /\ diff[pos].tag = "Right"
    /\ PeekIsRight
    /\ LET n == Len(plain_insert(Enter(-1), diff[pos].value).f) - Len(f)
       IN \E room \in Rooms(n) : Commit(plain_insert(Enter(room), diff[pos].value), 2)
    /\ UNCHANGED <<left, right, diff, faulty, inlined, earlier, assertion, config,
                   returned>>

HandleRightFollowed ==
    /\ HasNext
    /\ diff[pos].tag = "Right"
    /\ PeekIsRight
    /\ LET n == Len(plain_insert(Enter(-1), diff[pos].value).f) - Len(f)
       IN \E room \in Rooms(n) : Commit(plain_insert(Enter(room), diff[pos].value), 1)
    /\ UNCHANGED <<left, right, diff, faulty, inlined, earlier, assertion, config,
                   returned>>

HandleRightInline ==
    /\ HasNext
    /\ diff[pos].tag = "Right"
    /\ ~PeekIsRight
    /\ LatentDeletion_take(Enter(-1)).ret # None
    /\ LET deleted == LatentDeletion_take(Enter(-1)).ret[1]
       IN \E cs \in chars(deleted, diff[pos].value) :
            LET n == Len(arm_Right_inline(Enter(-1), cs).f) - Len(f)
            IN \E room \in Rooms(n) :
                 LET st == arm_Right_inline(Enter(room), cs)
                 IN /\ Commit(st, 1)
                    /\ inlined' = Append(inlined,
                           [at |-> pos, left |-> deleted, right |-> diff[pos].value,
                            diff |-> cs, wrote |-> SubSeq(st.f, Len(f) + 1, Len(st.f)),
                            ok |-> ~st.err, style |-> st.style])
    /\ UNCHANGED <<left, right, diff, faulty, earlier, assertion, config,
                   returned>>

HandleRightPlain ==
    /\ HasNext
    /\ diff[pos].tag = "Right"
    /\ ~PeekIsRight
    /\ LatentDeletion_take(Enter(-1)).ret = None
    /\ LET n == Len(arm_Right_plain(Enter(-1), diff[pos].value).f) - Len(f)
       IN \E room \in Rooms(n) :
            Commit(arm_Right_plain(Enter(room), diff[pos].value), 1)
    /\ UNCHANGED <<left, right, diff, faulty, inlined, earlier, assertion, config,
                   returned>>

\* After the loop: previous_deletion.flush(f)?; Ok(())
FinalFlush ==
    /\ result = "running"
    /\ pos = Len(diff) + 1
    /\ LET n == Len(LatentDeletion_flush(Enter(-1)).f) - Len(f)
       IN \E room \in Rooms(n) :
            LET st == LatentDeletion_flush(Enter(room))
            IN /\ f' = st.f
               /\ calls' = st.calls
               /\ previous_deletion' = [value |-> st.value, count |-> st.count]
               /\ result' = IF st.err THEN "Err" ELSE "Ok"
    /\ pos' = pos
    /\ UNCHANGED <<left, right, diff, faulty, inlined, earlier, assertion, config,
                   returned>>

InitWith(sinks, total) ==
    /\ left \in Texts
    /\ right \in Texts
    /\ Len(left) + Len(right) <= total
    /\ diff \in diff_lines(left, right)
    /\ pos = 1
    /\ previous_deletion = LatentDeletion_default
    /\ f = <<>>
    /\ calls = 0
    /\ faulty \in sinks
    /\ result = "running"
    /\ inlined = <<>>
    /\ earlier = <<>>
    /\ assertion = NoAssertion
    /\ config = Config_default
    /\ returned = NoCall

Init == InitWith({FALSE}, MaxTotal)

Next ==
    \/ HandleBoth
    \/ HandleLeft
    \/ HandleRightFollowed
    \/ HandleRightInline
    \/ HandleRightPlain
    \/ FinalFlush

Spec == Init /\ [][Next]_vars

\* The same program writing to a sink that may refuse any write.
InitFail == InitWith({TRUE}, MaxTotalFaulty)
SpecFail == InitFail /\ [][Next]_vars


\* The call advances: while let Some(change) = changes.next() yields the
\* next entry and the arm for it runs to its end or to its first Err, or,
\* the iterator being exhausted, the flush after the loop runs and the call
\* returns.
Proceed ==
    \/ /\ HasNext
       /\ pos' = pos + 1
       /\ result' \in {"running", "Err"}
    \/ /\ result = "running"
       /\ pos = Len(diff) + 1
       /\ pos' = pos
       /\ result' \in {"Ok", "Err"}

\* The same program, sound sink or not, advancing whenever it can: the loop
\* and the code after it are sequential code that waits on nothing.
InitLive == InitWith({FALSE, TRUE}, MaxTotalLive)
SpecLive == InitLive /\ [][Next]_vars /\ WF_<<pos, result>>(Proceed)

\* The same program on the scripts that end with the entry of the trailing
\* empty line.
InitTrailing ==
    /\ left \in Texts
    /\ right \in Texts
    /\ Len(left) + Len(right) <= MaxTotal
    /\ diff \in diff_lines_trailing(left, right)
    /\ pos = 1
    /\ previous_deletion = LatentDeletion_default
    /\ f = <<>>
    /\ calls = 0
    /\ faulty = FALSE
    /\ result = "running"
    /\ inlined = <<>>
    /\ earlier = <<>>
    /\ assertion = NoAssertion
    /\ config = Config_default
    /\ returned = NoCall

SpecTrailing == InitTrailing /\ [][Next]_vars

\* --------------------------------------------------- write_inline_diff alone
\* write_inline_diff(f, left, right) called on an empty sink with any two
\* lines: left and right hold the two lines, the line script stays empty.
CallInlineDiff ==
    /\ result = "running"
    /\ inlined = <<>>
    /\ \E cs \in chars(left, right) :
           LET n == Len(write_inline_diff(Enter(-1), cs).f) - Len(f)
           IN \E room \in Rooms(n) :
                LET st == write_inline_diff(Enter(room), cs)
                IN /\ f' = st.f
                   /\ calls' = st.calls
                   /\ result' = IF st.err THEN "Err" ELSE "Ok"
                   /\ inlined' = Append(inlined,
                          [at |-> 0, left |-> left, right |-> right, diff |-> cs,
                           wrote |-> SubSeq(st.f, Len(f) + 1, Len(st.f)),
                           ok |-> ~st.err, style |-> st.style])
    /\ UNCHANGED <<left, right, diff, pos, previous_deletion, faulty, earlier, assertion, config,
                   returned>>

InitInline ==
    /\ left \in Lines
    /\ right \in Lines
    /\ Len(left) + Len(right) <= MaxPair
    /\ diff = <<>>
    /\ pos = 1
    /\ previous_deletion = LatentDeletion_default
    /\ f = <<>>
    /\ calls = 0
    /\ faulty = FALSE
    /\ result = "running"
    /\ inlined = <<>>
    /\ earlier = <<>>
    /\ assertion = NoAssertion
    /\ config = Config_default
    /\ returned = NoCall

NextInline == CallInlineDiff

SpecInline == InitInline /\ [][NextInline]_vars

\* ------------------------------------------------------------- Display::fmt
\* fmt of Comparison (the texts are the {:#?} renderings of the two values)
\* and of StrComparison (the texts are the two strings): result tells which
\* of the two has been entered until write_header has returned.
FmtEntry == {"Comparison::fmt", "StrComparison::fmt"}

WriteHeader ==
    /\ result \in FmtEntry
    /\ \E room \in Rooms(Len(HEADER)) :
           /\ f' = write_header(Enter(room)).f
           /\ calls' = write_header(Enter(room)).calls
           /\ result' = header_result(write_header(Enter(room)))
    /\ UNCHANGED <<left, right, diff, pos, previous_deletion, faulty, inlined,
                   earlier, assertion, config,
                   returned>>

InitDisplay ==
    /\ left \in Texts
    /\ right \in Texts
    /\ Len(left) + Len(right) <= MaxTotalDisplay
    /\ diff \in diff_lines(left, right)
    /\ pos = 1
    /\ previous_deletion = LatentDeletion_default
    /\ f = <<>>
    /\ calls = 0
    /\ faulty = TRUE
    /\ result \in FmtEntry
    /\ inlined = <<>>
    /\ earlier = <<>>
    /\ assertion = NoAssertion
    /\ config = Config_default
    /\ returned = NoCall

NextDisplay == WriteHeader \/ Next

SpecDisplay == InitDisplay /\ [][NextDisplay]_vars

\* ------------------------------------------------------- calling it again
\* The character scripts ::diff::chars gave in the current call, in order.
CallScripts == [k \in 1..Len(inlined) |-> inlined[k].diff]

\* Mutant: the buffer of the call before is used again.
kept_previous_deletion(old) == old

\* let mut previous_deletion = LatentDeletion::default(): a local of the
\* call, whatever the call before has left in its own.
new_previous_deletion(old) == LatentDeletion_default

\* write_lines has returned and is called once more with the same texts and
\* a new sink; ::diff::lines gives the same script.
Reinvoke ==
    /\ result \in {"Ok", "Err"}
    /\ Len(earlier) < MaxCalls - 1
    /\ earlier' = Append(earlier,
                      IF result = "Ok"
                      THEN [ok |-> TRUE, out |-> f, scripts |-> CallScripts]
                      ELSE [ok |-> FALSE, out |-> <<>>, scripts |-> <<>>])
    /\ previous_deletion' = new_previous_deletion(previous_deletion)
    /\ pos' = 1
    /\ f' = <<>>
    /\ calls' = 0
    /\ result' = "running"
    /\ inlined' = <<>>
    /\ UNCHANGED <<left, right, diff, faulty, assertion, config,
                   returned>>

InitTwice == InitWith({TRUE}, MaxTotalTwice)

NextTwice == Reinvoke \/ Next

SpecTwice == InitTwice /\ [][NextTwice]_vars



\* ------------------------------------------------- LatentDeletion on its own
\* The methods of a LatentDeletion called in any order on a value built by
\* LatentDeletion::default(), flush writing to a sink that accepts every
\* write.
LatentLines == SeqsUpTo(Letters, MaxLatentLine)

\* previous_deletion.set(value)
CallSet ==
    /\ result = "LatentDeletion"
    /\ previous_deletion.count < MaxCount
    /\ \E value \in LatentLines :
           LET st == LatentDeletion_set(Enter(-1), value)
           IN previous_deletion' = [value |-> st.value, count |-> st.count]
    /\ returned' = [call |-> "set", ok |-> TRUE, taken |-> None]
    /\ UNCHANGED <<left, right, diff, pos, f, calls, faulty, result, inlined,
                   earlier, assertion, config>>

\* previous_deletion.take()
CallTake ==
    /\ result = "LatentDeletion"
    /\ LET t == LatentDeletion_take(Enter(-1))
       IN /\ previous_deletion' = [value |-> t.st.value, count |-> t.st.count]
          /\ returned' = [call |-> "take", ok |-> TRUE, taken |-> t.ret]
    /\ UNCHANGED <<left, right, diff, pos, f, calls, faulty, result, inlined,
                   earlier, assertion, config>>

\* previous_deletion.flush(f)
CallFlush ==
    /\ result = "LatentDeletion"
    /\ previous_deletion.value = None \/ Cardinality({k \in 1..Len(f) : f[k] = NL}) < MaxFlushed
    /\ LET st == LatentDeletion_flush(Enter(-1))
       IN /\ f' = st.f
          /\ calls' = st.calls
          /\ previous_deletion' = [value |-> st.value, count |-> st.count]
          /\ returned' = [call |-> "flush", ok |-> ~st.err, taken |-> None]
    /\ UNCHANGED <<left, right, diff, pos, faulty, result, inlined, earlier,
                   assertion, config>>

InitLatent ==
    /\ left = <<>>
    /\ right = <<>>
    /\ diff = <<>>
    /\ pos = 1
    /\ previous_deletion = LatentDeletion_default
    /\ f = <<>>
    /\ calls = 0
    /\ faulty = FALSE
    /\ result = "LatentDeletion"
    /\ inlined = <<>>
    /\ earlier = <<>>
    /\ assertion = NoAssertion
    /\ config = Config_default
    /\ returned = NoCall

NextLatent == CallSet \/ CallTake \/ CallFlush

SpecLatent == InitLatent /\ [][NextLatent]_vars

\* ---------------------------------------------------------- assertion macros
\* The extra arguments of a macro call: a format string, given as its pieces
\* (literal text and "{}" placeholders), and one value per placeholder.
Placeholder == "{}"
IsPlaceholder(p) == p = Placeholder
FormatStrings == SeqsUpTo({"m", Placeholder}, MaxFmt)
ExtraArgs ==
    {[fmt |-> t, values |-> v] :
        <<t, v>> \in {x \in FormatStrings \X SeqsUpTo({"7"}, MaxFmt) :
                         Len(x[2]) = Len(SelectSeq(x[1], IsPlaceholder))}}

\* The text a format string and its values are formatted to: each placeholder
\* is replaced by the next value.
RECURSIVE format(_, _)
format(fmt, values) ==
    IF fmt = <<>>
    THEN <<>>
    ELSE IF Head(fmt) = Placeholder
    THEN <<Head(values)>> \o format(Tail(fmt), Tail(values))
    ELSE <<Head(fmt)>> \o format(Tail(fmt), values)

\* Mutant: the colon is written also when no custom message was given.
maybe_colon_always(args) == <<": ">>

\* The first two arms of each macro: a call with the two operands only (args
\* is None) passes "" for the colon and "" as format string, a call with
\* extra arguments (args is Some of them) passes ": " and the arguments.
maybe_colon(args) == IF args = None THEN <<>> ELSE <<": ">>

format_args(args) ==
    IF args = None THEN format(<<>>, <<>>) ELSE format(args[1].fmt, args[1].values)

\* The fixed start of the two panic messages; the quotes around the
\* parenthesis stand for the backquotes of the source.
ASSERT_EQ_FAILED == "assertion failed: '(left == right)'"
ASSERT_NE_FAILED == "assertion failed: '(left != right)'"
BOTH_SIDES == "Both sides:"

\* Mutant: the message is built and the panic raised whatever == returned.
assert_eq_panics_always(eq) == TRUE

\* if !( *left_val == *right_val )
assert_eq_panics(eq) == ~eq

\* The panic message of assert_eq! up to the "{}" of the comparison.
assert_eq_message_head(args) ==
    <<ASSERT_EQ_FAILED>> \o maybe_colon(args) \o format_args(args) \o <<NL, NL>>

\* Comparison::new and StrComparison::new: the two references are stored.
Comparison_new(l, r) == Some([left |-> l, right |-> r])

\* create_comparison: a StrComparison for operands compared as strings by
\* default, a Comparison of the {:#?} renderings otherwise; assert_str_eq!
\* always builds a StrComparison.
create_comparison(a) ==
    IF a.as_str THEN "StrComparison::fmt" ELSE "Comparison::fmt"

\* if *left_val == *right_val
assert_ne_panics(eq) == eq

\* Mutant: the message of assert_ne! shows the comparison of the two sides.
assert_ne_message_with_header(args, left_debug) ==
    <<ASSERT_NE_FAILED>> \o maybe_colon(args) \o format_args(args) \o
    <<NL, NL>> \o HEADER \o left_debug \o <<NL, NL>>

\* The panic message of assert_ne!; left_debug is the {:#?} rendering of the
\* left operand.
assert_ne_message(args, left_debug) ==
    <<ASSERT_NE_FAILED>> \o maybe_colon(args) \o format_args(args) \o
    <<NL, NL, BOTH_SIDES, NL>> \o left_debug \o <<NL, NL>>

\* Mutant: the body is told that a message was given whenever it runs.
has_additional_args_always(args) == TRUE

\* $has_additional_args: false in the first arm, true in the second.
has_additional_args(args) == args # None

\* The four bindings the body of a derived macro sees.
derive_bindings(l, r, args) ==
    [left |-> l, right |-> r,
     has_message |-> has_additional_args(args),
     message |-> format_args(args)]

derive_assert_eq_runs_body(eq) == ~eq
derive_assert_ne_runs_body(eq) == eq

Macros ==
    {"assert_eq!", "assert_str_eq!", "assert_ne!",
     "derive_assert_eq!", "derive_assert_ne!"}

\* assert_eq! and assert_str_eq!: compare, and on failure build the
\* comparison and start the panic message, whose next argument is written
\* by Display::fmt of the comparison.
AssertEq ==
    /\ result = "invoked"
    /\ assertion.macro \in {"assert_eq!", "assert_str_eq!"}
    /\ IF assert_eq_panics(assertion.eq)
       THEN /\ assertion' =
                   [assertion EXCEPT !.comparison = Comparison_new(left, right)]
            /\ f' = write(Enter(-1), assert_eq_message_head(assertion.args)).f
            /\ calls' = write(Enter(-1), assert_eq_message_head(assertion.args)).calls
            /\ result' = create_comparison(assertion)
       ELSE /\ result' = "passed"
            /\ UNCHANGED <<assertion, f, calls>>
    /\ UNCHANGED <<left, right, diff, pos, previous_deletion, faulty, inlined,
                   earlier, config,
                   returned>>

\* Display::fmt of the comparison built by the macro: the header, then
\* write_lines on the two texts reached through the stored references, which
\* starts by computing their line script.
DisplayFmt ==
    /\ result \in FmtEntry
    /\ assertion.comparison # None
    /\ f' = write_header(Enter(-1)).f
    /\ calls' = write_header(Enter(-1)).calls
    /\ diff' \in diff_lines(assertion.comparison[1].left,
                            assertion.comparison[1].right)
    /\ result' = header_result(write_header(Enter(-1)))
    /\ UNCHANGED <<left, right, pos, previous_deletion, faulty, inlined, earlier,
                   assertion, config,
                   returned>>

\* The "\n" that ends the panic message of assert_eq!, written once the
\* comparison's fmt has returned.
PanicEnd ==
    /\ result = "Ok"
    /\ assertion.macro \in {"assert_eq!", "assert_str_eq!"}
    /\ f' = write(Enter(-1), <<NL>>).f
    /\ calls' = write(Enter(-1), <<NL>>).calls
    /\ result' = "panicked"
    /\ UNCHANGED <<left, right, diff, pos, previous_deletion, faulty, inlined,
                   earlier, assertion, config,
                   returned>>

AssertNe ==
    /\ result = "invoked"
    /\ assertion.macro = "assert_ne!"
    /\ IF assert_ne_panics(assertion.eq)
       THEN /\ f' = write(Enter(-1), assert_ne_message(assertion.args, left)).f
            /\ calls' = write(Enter(-1), assert_ne_message(assertion.args, left)).calls
            /\ result' = "panicked"
       ELSE /\ result' = "passed"
            /\ UNCHANGED <<f, calls>>
    /\ UNCHANGED <<left, right, diff, pos, previous_deletion, faulty, inlined,
                   earlier, assertion, config,
                   returned>>

\* A macro generated by derive_assert_eq!: the body runs with its bindings.
DeriveAssertEq ==
    /\ result = "invoked"
    /\ assertion.macro = "derive_assert_eq!"
    /\ IF derive_assert_eq_runs_body(assertion.eq)
       THEN /\ assertion' =
                   [assertion EXCEPT
                       !.body = Some(derive_bindings(left, right, assertion.args))]
            /\ result' = "body"
       ELSE /\ result' = "passed"
            /\ UNCHANGED assertion
    /\ UNCHANGED <<left, right, diff, pos, previous_deletion, f, calls, faulty,
                   inlined, earlier, config,
                   returned>>

\* A macro generated by derive_assert_ne!.
DeriveAssertNe ==
    /\ result = "invoked"
    /\ assertion.macro = "derive_assert_ne!"
    /\ IF derive_assert_ne_runs_body(assertion.eq)
       THEN /\ assertion' =
                   [assertion EXCEPT
                       !.body = Some(derive_bindings(left, right, assertion.args))]
            /\ result' = "body"
       ELSE /\ result' = "passed"
            /\ UNCHANGED assertion
    /\ UNCHANGED <<left, right, diff, pos, previous_deletion, f, calls, faulty,
                   inlined, earlier, config,
                   returned>>

\* A macro call with two operands whose texts are left and right, == on the
\* operands returning eq, with or without extra arguments.
InitAssert ==
    /\ left \in Texts
    /\ right \in Texts
    /\ Len(left) + Len(right) <= MaxTotalAssert
    /\ diff = <<>>
    /\ pos = 1
    /\ previous_deletion = LatentDeletion_default
    /\ f = <<>>
    /\ calls = 0
    /\ faulty = FALSE
    /\ result = "invoked"
    /\ inlined = <<>>
    /\ earlier = <<>>
    /\ config = Config_default
    /\ returned = NoCall
    /\ assertion \in
           {[macro |-> m, args |-> a, eq |-> e, as_str |-> s,
             comparison |-> None, body |-> None] :
               <<m, a, e, s>> \in
                   {x \in Macros \X ({None} \cup {Some(y) : y \in ExtraArgs})
                              \X BOOLEAN \X BOOLEAN :
                        /\ x[1] = "assert_str_eq!" => x[4]
                        /\ x[1] \notin {"assert_eq!", "assert_str_eq!"} => ~x[4]}}

NextAssert ==
    \/ AssertEq
    \/ DisplayFmt
    \/ PanicEnd
    \/ AssertNe
    \/ DeriveAssertEq
    \/ DeriveAssertNe
    \/ Next

SpecAssert == InitAssert /\ [][NextAssert]_vars


\* ------------------------------------------ the configurable variant (src/src)
\* The labels a Config may override the defaults with.
OverrideLabels == {"expect", "actual"}
Configs ==
    {[Config_default EXCEPT !.maybe_label_left = l, !.maybe_label_right = r] :
        <<l, r>> \in ({None} \cup {Some(x) : x \in OverrideLabels})
                     \X ({None} \cup {Some(x) : x \in OverrideLabels})}

\* Changeset::new(a, b, split) of the difference crate: some edit script
\* between the pieces of the two texts, each maximal run of equally tagged
\* pieces joined with the split string into one Same, Add or Rem chunk.
Difference(e) ==
    [tag |-> CASE e.tag = "Left" -> "Rem"
               [] e.tag = "Right" -> "Add"
               [] OTHER -> "Same",
     value |-> e.value]

RECURSIVE Chunks(_, _)
Chunks(script, split) ==
    IF script = <<>>
    THEN <<>>
    ELSE LET rest == Chunks(Tail(script), split)
             e == Difference(Head(script))
         IN IF rest # <<>> /\ rest[1].tag = e.tag
            THEN <<[tag |-> e.tag, value |-> e.value \o split \o rest[1].value]>>
                 \o Tail(rest)
            ELSE <<e>> \o rest

Changeset_new_lines(a, b) ==
    {Chunks(s, <<NL>>) : s \in EditScripts(SplitNL(a), SplitNL(b))}
Changeset_new_chars(a, b) ==
    {Chunks([k \in 1..Len(s) |-> [tag |-> s[k].tag, value |-> <<s[k].value>>]], <<>>) :
        s \in EditScripts(a, b)}

\* Option::unwrap_or
unwrap_or(opt, default) == IF opt = None THEN default ELSE opt[1]

\* config._maybe_label_left.unwrap_or(config.default_label_left)
label_left(cfg) == unwrap_or(cfg.maybe_label_left, cfg.default_label_left)

\* Mutant: the right side is named by the override of the left side.
label_right_of_left(cfg) == unwrap_or(cfg.maybe_label_left, cfg.default_label_right)

\* config._maybe_label_right.unwrap_or(config.default_label_right)
label_right(cfg) == unwrap_or(cfg.maybe_label_right, cfg.default_label_right)

\* painted!(style, text) written to the sink.
painted(st, style, text) ==
    write(st, fmt_prefix(style) \o text \o fmt_suffix(style))

\* The header line of format_comparison: "Diff" in bold, the left marker and
\* label in the left style, the right label and marker in the right style.
header_pieces(cfg) ==
    <<BOLD, "Diff", RESET, " ">>
    \o fmt_prefix(cfg.style_left)
    \o <<cfg.prefix_left, " ", label_left(cfg)>>
    \o fmt_suffix(cfg.style_left)
    \o <<" / ">>
    \o fmt_prefix(cfg.style_right)
    \o <<label_right(cfg), " ", cfg.prefix_right>>
    \o fmt_suffix(cfg.style_right)
    \o <<" :", NL>>

\* for line in text.split('\n') { paint!(f, style, "{}{}\n", prefix, line)?; }
RECURSIVE paint_lines(_, _, _, _)
paint_lines(st, style, prefix, ls) ==
    IF ls = <<>> \/ st.err
    THEN st
    ELSE paint_lines(painted(st, style, <<prefix>> \o Head(ls) \o <<NL>>),
                     style, prefix, Tail(ls))

\* The Same arm: each line after the plain prefix, both in the base style.
RECURSIVE same_lines(_, _, _)
same_lines(st, cfg, ls) ==
    IF ls = <<>> \/ st.err
    THEN st
    ELSE same_lines(
             writeln(painted(painted(st, cfg.style, <<cfg.prefix>>), cfg.style, Head(ls))),
             cfg, Tail(ls))

\* One side of format_replacement: the Same chunks of the character changeset
\* in the side's style, the chunks tagged `side` in its diff style.
RECURSIVE side_chunks(_, _, _, _, _)
side_chunks(st, cs, side, light, heavy) ==
    IF cs = <<>> \/ st.err
    THEN st
    ELSE side_chunks(
             CASE Head(cs).tag = "Same" -> painted(st, light, Head(cs).value)
               [] Head(cs).tag = side -> painted(st, heavy, Head(cs).value)
               [] OTHER -> st,
             Tail(cs), side, light, heavy)

\* format_replacement up to the end of the left line: the removed lines but
\* the last as plain lines, then the last one against the first added line.
replacement_left(st, removed, cs, cfg) ==
    writeln(painted(
        side_chunks(
            painted(paint_lines(st, cfg.style_left, cfg.prefix_left,
                                SubSeq(SplitNL(removed), 1, Len(SplitNL(removed)) - 1)),
                    cfg.style_left, <<cfg.prefix_left>>),
            cs, "Rem", cfg.style_left, cfg.style_left_diff),
        cfg.style, <<>>))

\* format_replacement from the right line on: the first added line against
\* the last removed one, then the other added lines as plain lines.
replacement_right(st, added, cs, cfg) ==
    paint_lines(
        writeln(painted(
            side_chunks(painted(st, cfg.style_right, <<cfg.prefix_right>>),
                        cs, "Add", cfg.style_right, cfg.style_right_diff),
            cfg.style, <<>>)),
        cfg.style_right, cfg.prefix_right, Tail(SplitNL(added)))

\* format_replacement, given the changeset cs of the two lines it compares.
format_replacement(st, added, removed, cs, cfg) ==
    replacement_right(replacement_left(st, removed, cs, cfg), added, cs, cfg)

\* What a step of format_comparison leaves: the sink after it and the index
\* of the chunk the loop is at.
Formatted(st, consumed) ==
    /\ f' = st.f
    /\ calls' = st.calls
    /\ pos' = pos + consumed
    /\ UNCHANGED <<left, right, diff, previous_deletion, faulty, result, inlined,
                   earlier, assertion, config,
                   returned>>

InLoop == result = "diffs" /\ pos <= Len(diff)
AfterRem == pos > 1 /\ diff[pos - 1].tag = "Rem"
BeforeAdd == pos < Len(diff) /\ diff[pos + 1].tag = "Add"

\* writeln!(f, "{} {} / {} :", ...)?
FormatHeader ==
    /\ result = "format_comparison"
    /\ f' = write(Enter(-1), header_pieces(config)).f
    /\ calls' = write(Enter(-1), header_pieces(config)).calls
    /\ result' = "diffs"
    /\ UNCHANGED <<left, right, diff, pos, previous_deletion, faulty, inlined,
                   earlier, assertion, config,
                   returned>>

FormatSame ==
    /\ InLoop
    /\ diff[pos].tag = "Same"
    /\ Formatted(same_lines(Enter(-1), config, SplitNL(diff[pos].value)), 1)

\* An Add chunk that does not follow a Rem chunk.
FormatAdd ==
    /\ InLoop
    /\ diff[pos].tag = "Add"
    /\ ~AfterRem
    /\ Formatted(paint_lines(Enter(-1), config.style_right, config.prefix_right,
                             SplitNL(diff[pos].value)), 1)

\* An Add chunk preceded by a Rem chunk.
FormatReplacement ==
    /\ InLoop
    /\ diff[pos].tag = "Add"
    /\ AfterRem
    /\ LET removed == SplitNL(diff[pos - 1].value)
           added == SplitNL(diff[pos].value)
       IN \E cs \in Changeset_new_chars(removed[Len(removed)], added[1]) :
              Formatted(format_replacement(Enter(-1), diff[pos].value,
                                           diff[pos - 1].value, cs, config), 1)

\* A Rem chunk: left to the next iteration if an Add chunk follows.
FormatRem ==
    /\ InLoop
    /\ diff[pos].tag = "Rem"
    /\ IF BeforeAdd
       THEN Formatted(Enter(-1), 1)
       ELSE Formatted(paint_lines(Enter(-1), config.style_left, config.prefix_left,
                                  SplitNL(diff[pos].value)), 1)

\* Ok(()) after the loop.
FormatDone ==
    /\ result = "diffs"
    /\ pos = Len(diff) + 1
    /\ result' = "Ok"
    /\ UNCHANGED <<left, right, diff, pos, previous_deletion, f, calls, faulty,
                   inlined, earlier, assertion, config, returned>>

\* Comparison::new(config, left, right) has built the changeset of the two
\* {:#?} texts and Display::fmt calls format_comparison on an empty sink.
InitConfig ==
    /\ left \in Texts
    /\ right \in Texts
    /\ Len(left) + Len(right) <= MaxTotalConfig
    /\ diff \in Changeset_new_lines(left, right)
    /\ pos = 1
    /\ previous_deletion = LatentDeletion_default
    /\ f = <<>>
    /\ calls = 0
    /\ faulty = FALSE
    /\ result = "format_comparison"
    /\ inlined = <<>>
    /\ earlier = <<>>
    /\ assertion = NoAssertion
    /\ config \in Configs
    /\ returned = NoCall

NextConfig ==
    \/ FormatHeader
    \/ FormatSame
    \/ FormatAdd
    \/ FormatReplacement
    \/ FormatRem
    \/ FormatDone

SpecConfig == InitConfig /\ [][NextConfig]_vars

\* ------------------------------------------------- reading the sink's content
IsOpen(p) == p \in {RED_LIGHT, GREEN_LIGHT, RED_HEAVY, GREEN_HEAVY}
IsEscape(p) == IsOpen(p) \/ p = RESET
NotEscape(p) == ~IsEscape(p)

\* A line with its escapes removed.
Strip(line) == SelectSeq(line, NotEscape)

\* The complete (newline-terminated) lines of what was written, without "\n".
RECURSIVE OutLines(_)
OutLines(out) ==
    IF \A i \in 1..Len(out) : out[i] # NL
    THEN <<>>
    ELSE LET i == CHOOSE j \in 1..Len(out) :
                      out[j] = NL /\ \A k \in 1..(j - 1) : out[k] # NL
         IN <<SubSeq(out, 1, i - 1)>> \o OutLines(SubSeq(out, i + 1, Len(out)))

Terminated(out) == out = <<>> \/ out[Len(out)] = NL

\* The prefix character and the plain rendering of a script entry.
Marker(tag) ==
    CASE tag = "Left" -> SIGN_LEFT
      [] tag = "Right" -> SIGN_RIGHT
      [] OTHER -> " "

PlainLine(e) ==
    CASE e.tag = "Left" -> <<RED_LIGHT, SIGN_LEFT>> \o e.value \o <<RESET>>
      [] e.tag = "Right" -> <<GREEN_LIGHT, SIGN_RIGHT>> \o e.value \o <<RESET>>
      [] OTHER -> <<" ">> \o e.value

\* Runs of the edit script: the maximal stretch of equally tagged entries
\* around entry i.
RunStart(i) ==
    CHOOSE j \in 1..i :
        /\ \A k \in j..i : diff[k].tag = diff[i].tag
        /\ j = 1 \/ diff[j - 1].tag # diff[i].tag
RunEnd(i) ==
    CHOOSE j \in i..Len(diff) :
        /\ \A k \in i..j : diff[k].tag = diff[i].tag
        /\ j = Len(diff) \/ diff[j + 1].tag # diff[i].tag
RunLength(i) == RunEnd(i) - RunStart(i) + 1

\* Entry i is a run of one line: neither neighbour has its tag.
Lone(i) ==
    /\ i = 1 \/ diff[i - 1].tag # diff[i].tag
    /\ i = Len(diff) \/ diff[i + 1].tag # diff[i].tag

\* Entry j is a Removed run of one line directly followed by an Inserted run
\* of one line.
SinglePair(j) ==
    /\ j \in 1..(Len(diff) - 1)
    /\ diff[j].tag = "Left"
    /\ Lone(j)
    /\ diff[j + 1].tag = "Right"
    /\ Lone(j + 1)

\* Entry i lies in a Removed run or in the Inserted run directly after a
\* Removed run, and one of the two runs has more than one line.
InMultiBlock(i) ==
    \/ /\ diff[i].tag = "Left"
       /\ \/ ~Lone(i)
          \/ /\ RunEnd(i) < Len(diff)
             /\ diff[RunEnd(i) + 1].tag = "Right"
             /\ ~Lone(RunEnd(i) + 1)
    \/ /\ diff[i].tag = "Right"
       /\ RunStart(i) > 1
       /\ diff[RunStart(i) - 1].tag = "Left"
       /\ ~Lone(i) \/ ~Lone(RunStart(i) - 1)

\* Entry j is a lone Inserted line directly followed by a lone Removed line,
\* with no other changed line next to the two.
InsertedFirstPair(j) ==
    /\ j \in 1..(Len(diff) - 1)
    /\ diff[j].tag = "Right"
    /\ diff[j + 1].tag = "Left"
    /\ j = 1 \/ diff[j - 1].tag = "Both"
    /\ j + 1 = Len(diff) \/ diff[j + 2].tag = "Both"

InlineCalls == {inlined[k] : k \in 1..Len(inlined)}

\* How many pieces of seq pass Test.
Count(seq, Test(_)) == Cardinality({k \in 1..Len(seq) : Test(seq[k])})
IsReset(p) == p = RESET
IsNL(p) == p = NL

\* Opens and resets alternate over seq, every character lies inside a style,
\* no style is open at a "\n" or at the end; open tells whether one is open
\* at the start.
RECURSIVE Alternates(_, _)
Alternates(seq, open) ==
    IF seq = <<>>
    THEN ~open
    ELSE LET p == Head(seq)
         IN CASE IsOpen(p) -> ~open /\ Alternates(Tail(seq), TRUE)
              [] p = RESET -> open /\ Alternates(Tail(seq), FALSE)
              [] p = NL -> ~open /\ Alternates(Tail(seq), FALSE)
              [] OTHER -> open /\ Alternates(Tail(seq), open)

\* The first character of a line, escapes aside: its marker.
MarkerOf(line) == IF Strip(line) = <<>> THEN "" ELSE Strip(line)[1]

\* The characters of a line in order, each with the style escape it is
\* written under ("" when no style is open).
RECURSIVE Styled(_, _)
Styled(line, cur) ==
    IF line = <<>>
    THEN <<>>
    ELSE LET p == Head(line)
         IN CASE IsOpen(p) -> Styled(Tail(line), p)
              [] p = RESET -> Styled(Tail(line), "")
              [] OTHER -> <<[c |-> p, under |-> cur]>> \o Styled(Tail(line), cur)

\* What one side of a character script shows: the marker under light, then
\* the entries tagged Both under light and those tagged `side` under heavy.
SideStyled(cs, sign, side, light, heavy) ==
    LET Shown(e) == e.tag \in {"Both", side}
        kept == SelectSeq(cs, Shown)
    IN <<[c |-> sign, under |-> light]>> \o
       [k \in 1..Len(kept) |->
           [c |-> kept[k].value,
            under |-> IF kept[k].tag = "Both" THEN light ELSE heavy]]

\* The number of maximal stretches of equally styled characters.
Spans(styled) ==
    IF styled = <<>>
    THEN 0
    ELSE 1 + Cardinality({k \in 1..(Len(styled) - 1) :
                              styled[k].under # styled[k + 1].under})


\* Where on a line its k-th character stands, escapes counted.
RawPos(line, k) ==
    CHOOSE p \in 1..Len(line) :
        /\ NotEscape(line[p])
        /\ Cardinality({q \in 1..p : NotEscape(line[q])}) = k

\* The place among the characters of a line, marker included, of entry i of
\* the character script cs on the line that shows the entries tagged `side`.
ShownAt(cs, i, side) ==
    1 + Cardinality({m \in 1..i : cs[m].tag \in {"Both", side}})


\* What the entries k..n of the script are written as, in script order: the
\* two lines of the inline diff for a pair that has one, the plain line for
\* any other entry.
RECURSIVE Rendered(_, _)
Rendered(k, n) ==
    IF k > n
    THEN <<>>
    ELSE IF k < n /\ \E c \in InlineCalls : c.at = k + 1
    THEN (CHOOSE c \in InlineCalls : c.at = k + 1).wrote \o Rendered(k + 2, n)
    ELSE PlainLine(diff[k]) \o <<NL>> \o Rendered(k + 1, n)


\* A style is open after the pieces of seq: its last escape opens one.
OpenAfter(seq) ==
    \E k \in 1..Len(seq) :
        /\ IsOpen(seq[k])
        /\ \A m \in (k + 1)..Len(seq) : NotEscape(seq[m])

\* Output line i is one of the two lines of an inline diff.
InlineLine(i) == \E c \in InlineCalls : c.at = i \/ c.at = i + 1


\* --------------------------------- the older write_lines (src/src/printer.rs)
\* The older LatentDeletion has a value and no count.
\* self.value = Some(value)
old_set(st, value) == IF st.err THEN st ELSE [st EXCEPT !.value = Some(value)]

\* Mutant: the older take returns the value and leaves it in place.
old_take_leaves_value(st) == [ret |-> st.value, st |-> st]

\* self.value.take()
old_take(st) == [ret |-> st.value, st |-> [st EXCEPT !.value = None]]

\* if let Some(value) = self.value { paint!; writeln! }  self.value = None
old_flush(st) ==
    IF st.err THEN st
    ELSE IF st.value # None
    THEN clear_value(writeln(paint(st, Red, SIGN_LEFT, st.value[1])))
    ELSE clear_value(st)

\* The older write_inline_diff builds the same styles through ansi_term and
\* writes the same pieces.
old_write_inline_diff(st, cs) == write_inline_diff(st, cs)

\* The state a call of write_lines starts in: nothing written, nothing
\* pending, a sink that accepts every write.
FreshCall ==
    [f |-> <<>>, room |-> -1, err |-> FALSE, calls |-> 0,
     value |-> None, count |-> 0, style |-> StyleDefault]

\* ::diff::chars(deleted, inserted) for the Inserted entry i: the script the
\* current write_lines got for the same pair at the same entry, if it made
\* the call, as the function gives one script per pair.
chars_at(i, deleted, inserted) ==
    IF \E c \in InlineCalls : c.at = i /\ c.left = deleted /\ c.right = inserted
    THEN (CHOOSE c \in InlineCalls :
              c.at = i /\ c.left = deleted /\ c.right = inserted).diff
    ELSE CHOOSE cs \in chars(deleted, inserted) : TRUE

\* One arm of the older match: no lookahead, an Inserted entry is written as
\* an inline diff whenever a value is pending.
old_arm(st, i) ==
    CASE diff[i].tag = "Both" ->
             write(old_flush(st), <<" ">> \o diff[i].value \o <<NL>>)
      [] diff[i].tag = "Right" ->
             IF old_take(st).ret # None
             THEN old_write_inline_diff(old_take(st).st,
                      chars_at(i, old_take(st).ret[1], diff[i].value))
             ELSE writeln(paint(old_take(st).st, Green, SIGN_RIGHT, diff[i].value))
      [] OTHER -> old_set(old_flush(st), diff[i].value)

\* for change in diff.into_iter() { ... } from entry i on, then the flush
\* after the loop.
RECURSIVE old_write_lines(_, _)
old_write_lines(st, i) ==
    IF i > Len(diff)
    THEN old_flush(st)
    ELSE old_write_lines(old_arm(st, i), i + 1)

\* No Removed run and no Inserted run of the script has two or more lines.
NoLongRun ==
    \A i \in 1..Len(diff) : diff[i].tag \in {"Left", "Right"} => Lone(i)


\* ------------------------------------------------ the run-based state machine
\* The machine with the states Empty, PendingSingle(line) and
\* PendingMulti(lines), which takes the script run by run.
Empty == [kind |-> "Empty", lines |-> <<>>]
PendingSingle(line) == [kind |-> "PendingSingle", lines |-> <<line>>]
PendingMulti(ls) == [kind |-> "PendingMulti", lines |-> ls]

\* The state a Removed run with the lines ls leaves.
pending_of(ls) == IF Len(ls) = 1 THEN PendingSingle(ls[1]) ELSE PendingMulti(ls)

\* The lines of the entries i..j.
RunLines(i, j) == [k \in 1..(j - i + 1) |-> diff[i + k - 1].value]

\* The lines ls written plainly as lines of entries tagged tag.
RECURSIVE plain_lines(_, _)
plain_lines(tag, ls) ==
    IF ls = <<>>
    THEN <<>>
    ELSE PlainLine([tag |-> tag, value |-> Head(ls)]) \o <<NL>>
         \o plain_lines(tag, Tail(ls))

\* The transition for the run that starts at entry i: m is the output so
\* far, the state, and the Inserted entries written as an inline diff.
run_step(m, i) ==
    LET ls == RunLines(i, RunEnd(i))
        flushed == m.f \o plain_lines("Left", m.state.lines)
    IN CASE diff[i].tag = "Both" ->
                [m EXCEPT !.f = flushed \o plain_lines("Both", ls), !.state = Empty]
         [] diff[i].tag = "Left" ->
                [m EXCEPT !.f = flushed, !.state = pending_of(ls)]
         [] OTHER ->
                IF m.state.kind = "PendingSingle" /\ Len(ls) = 1
                THEN [f |-> m.f \o write_inline_diff(FreshCall,
                                       chars_at(i, m.state.lines[1], ls[1])).f,
                      state |-> Empty,
                      at |-> m.at \cup {i}]
                ELSE [m EXCEPT !.f = flushed \o plain_lines("Right", ls),
                               !.state = Empty]

\* The machine run from the run starting at entry i to the end of the
\* script, where what is pending is written plainly.
RECURSIVE run_machine(_, _)
run_machine(m, i) ==
    IF i > Len(diff)
    THEN [m EXCEPT !.f = @ \o plain_lines("Left", m.state.lines), !.state = Empty]
    ELSE run_machine(run_step(m, i), RunEnd(i) + 1)

run_machine_start == [f |-> <<>>, state |-> Empty, at |-> {}]

IsBold(p) == p = BOLD
IsDiffWord(p) == p = "Diff"

\* The output lines whose marker is in the set ms.
WithMarker(ol, ms) == {i \in 1..Len(ol) : MarkerOf(ol[i]) \in ms}

\* ---------------------------------------------------------------------- C1
\* C1: with a sink that never fails write_lines never returns Err, and what it
\* has written is one newline-terminated line per script entry handled (the
\* pending removed line excepted), in script order, each being the entry's
\* marker followed by the entry's line once the escapes are removed; when it
\* returns Ok every entry of the script has its line: none dropped, none
\* duplicated.
C1_EveryEntryOnce ==
    LET ol == OutLines(f)
    IN /\ result # "Err"
       /\ Terminated(f)
       /\ Len(ol) = pos - 1 - Len(previous_deletion.value)
       /\ \A i \in 1..Len(ol) :
              Strip(ol[i]) = <<Marker(diff[i].tag)>> \o diff[i].value
       /\ previous_deletion.value # None =>
              diff[pos - 1] = Left(previous_deletion.value[1])
       /\ result = "Ok" => Len(ol) = Len(diff)

\* A finished run over a script with an unchanged, a removed and an inserted
\* line and an inline diff.
C1_Witness ==
    /\ result = "Ok"
    /\ \A t \in {"Left", "Right", "Both"} : \E i \in 1..Len(diff) : diff[i].tag = t
    /\ inlined # <<>>
    /\ Len(diff) >= 4

\* ---------------------------------------------------------------------- C2
\* C2: a line of a Removed run, or of the Inserted run directly after a
\* Removed run, where one of the two runs has more than one line, is never
\* handed to write_inline_diff and is written as a plain whole line (light
\* red '<' or light green '>', one open and one reset, no heavy style); every
\* call of write_inline_diff is for a one-line Removed run directly followed
\* by a one-line Inserted run.
C2_NoInlineForMultiLineRuns ==
    LET ol == OutLines(f)
    IN /\ \A i \in 1..Len(diff) :
              InMultiBlock(i) =>
                  /\ \A c \in InlineCalls : c.at # i /\ c.at - 1 # i
                  /\ i <= Len(ol) => ol[i] = PlainLine(diff[i])
       /\ \A c \in InlineCalls : SinglePair(c.at - 1)

\* Two removed lines followed by a single inserted line, all written.
C2_Witness ==
    /\ result = "Ok"
    /\ \E i \in 1..Len(diff) :
           /\ diff[i].tag = "Right"
           /\ RunLength(i) = 1
           /\ InMultiBlock(i)
           /\ diff[i].value # <<>>

\* ---------------------------------------------------------------------- C3
\* C3: once a one-line Removed run directly followed by a one-line Inserted
\* run has been handled, write_inline_diff has been called exactly once for
\* it, with the removed and the inserted line as arguments; the two output
\* lines of the pair are what that call wrote (the removed line is not also
\* written as a plain line), and directly after the Inserted entry the pending
\* slot is empty with count still 1, no flush having reset it.
C3_SinglePairIsInlined ==
    LET ol == OutLines(f)
    IN \A j \in 1..(Len(diff) - 1) :
           (SinglePair(j) /\ pos > j + 1) =>
               /\ Cardinality({k \in 1..Len(inlined) : inlined[k].at = j + 1}) = 1
               /\ \E c \in InlineCalls :
                      /\ c.at = j + 1
                      /\ c.left = diff[j].value
                      /\ c.right = diff[j + 1].value
                      /\ c.wrote = ol[j] \o <<NL>> \o ol[j + 1] \o <<NL>>
               /\ (pos = j + 2 /\ result = "running") =>
                      /\ previous_deletion = [value |-> None, count |-> 1]
                      /\ Len(ol) = j + 1

\* Directly after an inline diff of two different non-empty lines.
C3_Witness ==
    /\ inlined # <<>>
    /\ result = "running"
    /\ pos = inlined[Len(inlined)].at + 1
    /\ inlined[Len(inlined)].left # inlined[Len(inlined)].right
    /\ inlined[Len(inlined)].left # <<>>
    /\ inlined[Len(inlined)].right # <<>>

\* ---------------------------------------------------------------------- C4
\* C4: a Removed entry that directly follows an inline diff, and is not itself
\* the removed line of a further inline pair, is handled without a panic and
\* written as a plain removed line right after the two lines of that inline
\* diff; on return the output has one line per entry, so the line is neither
\* dropped nor duplicated.
C4_RemovedAfterInline ==
    LET ol == OutLines(f)
    IN \A i \in 3..Len(diff) :
           \A c \in InlineCalls :
               (c.at = i - 1 /\ diff[i].tag = "Left" /\ ~SinglePair(i)) =>
                   /\ (result = "running" /\ pos = i) => ENABLED HandleLeft
                   /\ result = "Ok" => Len(ol) = Len(diff)
                   /\ i <= Len(ol) =>
                          /\ ol[i] = PlainLine(diff[i])
                          /\ ol[i - 2] \o <<NL>> \o ol[i - 1] \o <<NL>> = c.wrote

\* The script Removed, Inserted, Removed of left "a\n" and right "b", done.
C4_Witness ==
    /\ result = "Ok"
    /\ left = <<"a", NL>>
    /\ right = <<"b">>
    /\ diff = <<Left(<<"a">>), Right(<<"b">>), Left(<<>>)>>

\* ---------------------------------------------------------------------- C5
\* C5: write_lines returns Err exactly when a write on the sink has failed,
\* the failed write is the last one made (nothing is written, flushed or
\* reset after it), and no further step of the walk is taken.
C5_ErrorStopsWriting ==
    /\ calls \in {Len(f), Len(f) + 1}
    /\ result = "Err" <=> calls = Len(f) + 1
    /\ result = "Err" => ~ENABLED Next

\* A failure in the middle of a line, with a deletion pending or entries left.
C5_Witness ==
    /\ result = "Err"
    /\ f # <<>>
    /\ f[Len(f)] \notin {RESET, NL}
    /\ pos <= Len(diff)
    /\ inlined # <<>>

\* ---------------------------------------------------------------------- C6
\* C6: what a call of write_inline_diff that returns Ok has written holds as
\* many style-open escapes as resets.
C6_InlineStyleBalance ==
    \A c \in InlineCalls : c.ok => Count(c.wrote, IsOpen) = Count(c.wrote, IsReset)

\* An inline diff whose left line switches between light and heavy.
C6_Witness ==
    \E c \in InlineCalls :
        /\ c.ok
        /\ Count(c.wrote, IsOpen) >= 5
        /\ \E k \in 1..Len(c.wrote) : c.wrote[k] = RED_HEAVY
        /\ \E k \in 1..Len(c.wrote) : c.wrote[k] = GREEN_HEAVY

\* ---------------------------------------------------------------------- C7
\* C7: in what write_inline_diff has written, opens and resets strictly
\* alternate starting with an open, every character is written under an open
\* style, no style is open at a line terminator or at the end, and the
\* writer's style is the default when the call returns.
C7_InlineStyleAlternates ==
    \A c \in InlineCalls :
        c.ok => Alternates(c.wrote, FALSE) /\ c.style = StyleDefault

\* An inline diff with a heavy span between two light spans on the left line.
C7_Witness ==
    \E c \in InlineCalls :
        /\ c.ok
        /\ \E k \in 1..(Len(c.diff) - 2) :
               /\ c.diff[k].tag = "Both"
               /\ c.diff[k + 1].tag = "Left"
               /\ c.diff[k + 2].tag = "Both"

\* ---------------------------------------------------------------------- C8
\* C8: if the left text is empty no output line carries the removed or the
\* unchanged marker and on return there are as many lines as the right text
\* has; symmetrically for an empty right text; for an empty left and a
\* one-line right text the output is exactly the plain added line.
C8_EmptySideHasNoLine ==
    LET ol == OutLines(f)
    IN /\ left = <<>> =>
              /\ \A i \in 1..Len(ol) : MarkerOf(ol[i]) = SIGN_RIGHT
              /\ result = "Ok" => Len(ol) = Len(lines(right))
       /\ right = <<>> =>
              /\ \A i \in 1..Len(ol) : MarkerOf(ol[i]) = SIGN_LEFT
              /\ result = "Ok" => Len(ol) = Len(lines(left))
       /\ (left = <<>> /\ right # <<>> /\ result = "Ok"
           /\ \A k \in 1..Len(right) : right[k] # NL) =>
              f = <<GREEN_LIGHT, SIGN_RIGHT>> \o right \o <<RESET, NL>>

\* left "" against right "ab", done.
C8_Witness ==
    /\ result = "Ok"
    /\ left = <<>>
    /\ right = <<"a", "b">>
    /\ f = <<GREEN_LIGHT, SIGN_RIGHT, "a", "b", RESET, NL>>

\* ---------------------------------------------------------------------- C9
\* C9: when the script ends with a Removed entry that no inline diff has
\* consumed, the line is still pending and unwritten when the loop ends, and
\* on return it is the last output line, plain, the output having one line
\* per entry; whenever write_lines has returned Ok the pending slot is empty.
C9_TrailingRemovalFlushed ==
    LET ol == OutLines(f)
        n == Len(diff)
    IN /\ result = "Ok" => previous_deletion.value = None
       /\ (n > 0 /\ diff[n].tag = "Left") =>
              /\ (result = "running" /\ pos = n + 1) =>
                     /\ previous_deletion.value = Some(diff[n].value)
                     /\ Len(ol) = n - 1
              /\ result = "Ok" =>
                     /\ Len(ol) = n
                     /\ ol[n] = PlainLine(diff[n])

\* A script of several entries ending with a non-empty removed line, done.
C9_Witness ==
    /\ result = "Ok"
    /\ Len(diff) >= 3
    /\ diff[Len(diff)].tag = "Left"
    /\ diff[Len(diff)].value # <<>>
    /\ diff[Len(diff) - 1].tag = "Both"

\* --------------------------------------------------------------------- C10
\* C10: the removed lines handled and not yet written are at most one, and
\* exactly the one in the pending slot; an unchanged line is written as soon
\* as its entry is handled and leaves the slot empty, and a removed line
\* directly before it has by then been written, plain, on the line before.
C10_PendingFlushedBeforeContext ==
    LET ol == OutLines(f)
        handled == {i \in 1..(pos - 1) : diff[i].tag = "Left"}
        written == {i \in 1..Len(ol) : MarkerOf(ol[i]) = SIGN_LEFT}
    IN /\ Len(previous_deletion.value) <= 1
       /\ Cardinality(handled) - Cardinality(written) = Len(previous_deletion.value)
       /\ \A i \in 1..(pos - 1) :
              diff[i].tag = "Both" =>
                  /\ i <= Len(ol)
                  /\ ol[i] = <<" ">> \o diff[i].value
                  /\ (i > 1 /\ diff[i - 1].tag = "Left") =>
                         ol[i - 1] = PlainLine(diff[i - 1])
                  /\ pos = i + 1 => previous_deletion.value = None

\* Directly after an unchanged line that follows a removed line.
C10_Witness ==
    /\ pos >= 3
    /\ result = "running"
    /\ diff[pos - 1].tag = "Both"
    /\ diff[pos - 2].tag = "Left"
    /\ diff[pos - 2].value # <<>>

\* --------------------------------------------------------------------- C11
\* C11: the first line a call of write_inline_diff writes is the marker '<'
\* under light red followed, in the order of the character script, by every
\* Equal character under light red and every Removed character under heavy
\* red; no Inserted character is on it, and with the escapes removed the line
\* is '<' followed by the removed line.
C11_InlineLeftLine ==
    \A c \in InlineCalls :
        c.ok =>
            LET line == OutLines(c.wrote)[1]
            IN /\ Styled(line, "") =
                      SideStyled(c.diff, SIGN_LEFT, "Left", RED_LIGHT, RED_HEAVY)
               /\ Strip(line) = <<SIGN_LEFT>> \o c.left

\* An inline diff whose character script has an unchanged, a removed and an
\* inserted character.
C11_Witness ==
    \E c \in InlineCalls :
        /\ c.ok
        /\ \A t \in {"Left", "Right", "Both"} :
               \E k \in 1..Len(c.diff) : c.diff[k].tag = t
        /\ RED_HEAVY \in {c.wrote[k] : k \in 1..Len(c.wrote)}

\* --------------------------------------------------------------------- C12
\* C12: the second line a call of write_inline_diff writes is the marker '>'
\* under light green followed, in the order of the character script, by every
\* Equal character under light green and every Inserted character under heavy
\* green; no Removed character is on it, and with the escapes removed the
\* line is '>' followed by the inserted line.
C12_InlineRightLine ==
    \A c \in InlineCalls :
        c.ok =>
            LET line == OutLines(c.wrote)[2]
            IN /\ Styled(line, "") =
                      SideStyled(c.diff, SIGN_RIGHT, "Right", GREEN_LIGHT, GREEN_HEAVY)
               /\ Strip(line) = <<SIGN_RIGHT>> \o c.right

\* An inline diff that inserts a character between two unchanged ones.
C12_Witness ==
    \E c \in InlineCalls :
        /\ c.ok
        /\ \E k \in 1..(Len(c.diff) - 2) :
               /\ c.diff[k].tag = "Both"
               /\ c.diff[k + 1].tag = "Right"
               /\ c.diff[k + 2].tag = "Both"
        /\ GREEN_HEAVY \in {c.wrote[k] : k \in 1..Len(c.wrote)}

\* --------------------------------------------------------------------- C13
\* C13: on each of the two lines of an inline diff the escapes come only
\* where the style changes: the line has exactly one open and one reset per
\* maximal stretch of equally styled characters (the marker counting as a
\* light one), no escape stands between two consecutive characters of the
\* same style, and no open is directly followed by a reset.
C13_EscapesOnlyOnStyleChange ==
    \A c \in InlineCalls :
        c.ok =>
            \A n \in {1, 2} :
                LET line == OutLines(c.wrote)[n]
                    spans == Spans(Styled(line, ""))
                IN /\ Count(line, IsOpen) = spans
                   /\ Count(line, IsReset) = spans
                   /\ \A k \in 1..(Len(line) - 1) :
                          IsOpen(line[k]) => NotEscape(line[k + 1])
                   /\ \A k \in 2..(Len(line) - 1) :
                          (line[k] = RESET /\ IsOpen(line[k + 1])) =>
                              \E j \in 1..(k - 1) :
                                  /\ IsOpen(line[j])
                                  /\ line[j] # line[k + 1]
                                  /\ \A m \in (j + 1)..(k - 1) : NotEscape(line[m])

\* An inline diff with two consecutive unchanged characters after the marker
\* and an inserted character after them.
C13_Witness ==
    \E c \in InlineCalls :
        /\ c.ok
        /\ Len(c.diff) = 3
        /\ c.diff[1].tag = "Both"
        /\ c.diff[2].tag = "Both"
        /\ c.diff[3].tag = "Right"
        /\ Len(OutLines(c.wrote)[1]) = 5
        /\ Len(OutLines(c.wrote)[2]) = 8

\* --------------------------------------------------------------------- C14
\* C14: a call of write_inline_diff on a sink that does not fail writes
\* exactly two newline-terminated lines, the '<' line first and the '>' line
\* second, whatever the two lines are, two empty lines included.
C14_InlineWritesTwoLines ==
    \A c \in InlineCalls :
        c.ok =>
            LET ol == OutLines(c.wrote)
            IN /\ Terminated(c.wrote)
               /\ Count(c.wrote, IsNL) = 2
               /\ Len(ol) = 2
               /\ MarkerOf(ol[1]) = SIGN_LEFT
               /\ MarkerOf(ol[2]) = SIGN_RIGHT

\* An inline diff of two empty lines.
C14_Witness ==
    \E c \in InlineCalls :
        /\ c.ok
        /\ c.left = <<>>
        /\ c.right = <<>>
        /\ c.wrote = <<RED_LIGHT, SIGN_LEFT, RESET, NL, GREEN_LIGHT, SIGN_RIGHT, RESET, NL>>

\* --------------------------------------------------------------------- C15
\* C15 as stated: once a lone removed line and a lone inserted line that are
\* directly adjacent have both been handled, in either order, some call of
\* write_inline_diff has had the two lines as its arguments.
C15_InlineInEitherOrder ==
    \A j \in 1..(Len(diff) - 1) :
        /\ (SinglePair(j) /\ pos > j + 1) =>
               \E c \in InlineCalls :
                   c.left = diff[j].value /\ c.right = diff[j + 1].value
        /\ (InsertedFirstPair(j) /\ pos > j + 1 /\ result = "Ok") =>
               \E c \in InlineCalls :
                   c.left = diff[j + 1].value /\ c.right = diff[j].value

\* C15 amended: write_inline_diff is called for an Inserted entry exactly
\* when that entry is a one-line Inserted run directly after a one-line
\* Removed run; a lone inserted line directly followed by a lone removed line
\* is not inline-diffed: both are written as plain lines, the inserted one
\* first.
C15_InlineOnlyRemovedFirst ==
    LET ol == OutLines(f)
    IN /\ \A i \in 1..(pos - 1) :
              diff[i].tag = "Right" =>
                  ((\E c \in InlineCalls : c.at = i) <=> SinglePair(i - 1))
       /\ \A j \in 1..(Len(diff) - 1) :
              (InsertedFirstPair(j) /\ j + 1 <= Len(ol)) =>
                  /\ ol[j] = PlainLine(diff[j])
                  /\ ol[j + 1] = PlainLine(diff[j + 1])
                  /\ \A c \in InlineCalls : c.at # j /\ c.at # j + 1

\* left "a\n" against right "a\nb": the inserted "b" comes before the removed
\* empty last line, and the run has returned.
C15_Witness ==
    /\ result = "Ok"
    /\ left = <<"a", NL>>
    /\ right = <<"a", NL, "b">>
    /\ diff = <<Both(<<"a">>), Right(<<"b">>), Left(<<>>)>>
    /\ inlined = <<>>

\* --------------------------------------------------------------------- C16
\* C16: when write_lines has returned, a text ending in "\n" has one more
\* line in the output than the same text without it (the left text as many
\* '<' and ' ' lines as it has lines, the right text as many '>' and ' '
\* lines), and that line is the last and empty: the bare context line " " if
\* both texts end in "\n", the bare added line '>' in light green if only
\* the right one does, the bare removed line '<' in light red if only the
\* left one does.
C16_TrailingNewlineVisible ==
    LET ol == OutLines(f)
    IN result = "Ok" =>
           /\ Cardinality(WithMarker(ol, {SIGN_LEFT, " "})) = Len(lines(left))
           /\ Cardinality(WithMarker(ol, {SIGN_RIGHT, " "})) = Len(lines(right))
           /\ (EndsNL(left) /\ EndsNL(right)) => ol[Len(ol)] = <<" ">>
           /\ (~EndsNL(left) /\ EndsNL(right)) =>
                  ol[Len(ol)] = <<GREEN_LIGHT, SIGN_RIGHT, RESET>>
           /\ (EndsNL(left) /\ ~EndsNL(right)) =>
                  ol[Len(ol)] = <<RED_LIGHT, SIGN_LEFT, RESET>>

\* left "ab\n" against right "a": the removed "ab" is inline-diffed with the
\* inserted "a" and the trailing empty line of the left text comes last.
C16_Witness ==
    /\ result = "Ok"
    /\ left = <<"a", "b", NL>>
    /\ right = <<"a">>
    /\ Len(inlined) = 1
    /\ OutLines(f)[3] = <<RED_LIGHT, SIGN_LEFT, RESET>>

\* --------------------------------------------------------------------- C17
\* C17: an Equal entry that has been handled has its own output line, with no
\* escape on it and the marker ' ' before the entry's line; no call of
\* write_inline_diff is for that entry or has its line as an argument by
\* position, and the changed lines around it keep to their own text, whatever
\* runs come before or after.
C17_EqualIsContextLine ==
    LET ol == OutLines(f)
    IN \A i \in 1..(pos - 1) :
           diff[i].tag = "Both" =>
               /\ i <= Len(ol)
               /\ Count(ol[i], IsEscape) = 0
               /\ MarkerOf(ol[i]) = " "
               /\ SubSeq(ol[i], 2, Len(ol[i])) = diff[i].value
               /\ \A c \in InlineCalls : c.at # i /\ c.at # i + 1
               /\ \A j \in {i - 1, i + 1} \cap 1..Len(ol) :
                      Len(Strip(ol[j])) = 1 + Len(diff[j].value)

\* An unchanged line handled right after a block of two removed lines and an
\* inserted line.
C17_Witness ==
    /\ result = "Ok"
    /\ \E i \in 2..Len(diff) :
           /\ diff[i].tag = "Both"
           /\ diff[i - 1].tag = "Right"
           /\ InMultiBlock(i - 1)

\* --------------------------------------------------------------------- C18
\* C18: every output line has exactly one prefix character before the line's
\* text, preceded by nothing but the style escape: ' ' for an Equal entry,
\* '<' for a Removed and '>' for an Inserted one, so that the text starts in
\* the same column on every line; this holds for the two lines of an inline
\* diff as well.
C18_OnePrefixCharacter ==
    LET ol == OutLines(f)
    IN /\ \A i \in 1..Len(ol) :
              /\ Strip(ol[i]) = <<Marker(diff[i].tag)>> \o diff[i].value
              /\ \/ ol[i][1] = Marker(diff[i].tag)
                 \/ IsOpen(ol[i][1]) /\ ol[i][2] = Marker(diff[i].tag)
       /\ \A c \in InlineCalls :
              c.ok =>
                  LET il == OutLines(c.wrote)
                  IN /\ SubSeq(il[1], 1, 2) = <<RED_LIGHT, SIGN_LEFT>>
                     /\ Tail(Strip(il[1])) = c.left
                     /\ SubSeq(il[2], 1, 2) = <<GREEN_LIGHT, SIGN_RIGHT>>
                     /\ Tail(Strip(il[2])) = c.right

\* A finished run with a non-empty unchanged line and an inline diff of a
\* non-empty removed line.
C18_Witness ==
    /\ result = "Ok"
    /\ \E i \in 1..Len(diff) : diff[i].tag = "Both" /\ diff[i].value # <<>>
    /\ \E c \in InlineCalls : c.ok /\ c.left # <<>>

\* --------------------------------------------------------------------- C19
\* C19: Display::fmt of Comparison and of StrComparison writes nothing before
\* the header; once the sink holds as many pieces as the header has, the
\* header line is what it starts with and is there exactly once, every body
\* line coming after it; if a write of the header fails, fmt returns the Err
\* with only the part of the header written before the failure in the sink,
\* and write_lines has not been called: no entry of the script is handled,
\* the buffer is untouched and no further step is taken.
C19_HeaderOnceBeforeBody ==
    /\ result \in FmtEntry => f = <<>> /\ calls = 0
    /\ (result \notin FmtEntry /\ Len(f) < Len(HEADER)) =>
           /\ result = "Err"
           /\ f = SubSeq(HEADER, 1, Len(f))
           /\ calls = Len(f) + 1
           /\ pos = 1
           /\ previous_deletion = LatentDeletion_default
           /\ inlined = <<>>
           /\ ~ENABLED NextDisplay
    /\ Len(f) >= Len(HEADER) =>
           /\ SubSeq(f, 1, Len(HEADER)) = HEADER
           /\ Count(f, IsBold) = 1
           /\ Count(f, IsDiffWord) = 1
    /\ result \in {"running", "Ok"} => Len(f) >= Len(HEADER)

\* The sink has refused a write in the middle of the header, the script
\* having entries to handle.
C19_Witness ==
    /\ result = "Err"
    /\ Len(f) \in 1..(Len(HEADER) - 1)
    /\ f[Len(f)] = "left"
    /\ diff # <<>>

C21_InlineArgsSingleLines ==
    \A c \in InlineCalls :
        /\ \A k \in 1..Len(c.left) : c.left[k] # NL
        /\ \A k \in 1..Len(c.right) : c.right[k] # NL
        /\ c.left = diff[c.at - 1].value
        /\ c.right = diff[c.at].value
        /\ \E k \in 1..Len(lines(left)) : lines(left)[k] = c.left
        /\ \E k \in 1..Len(lines(right)) : lines(right)[k] = c.right

\* An inline diff of two non-empty lines taken from a left text of several
\* lines, the removed line coming after a removed and an unchanged line.
C21_Witness ==
    \E c \in InlineCalls :
        /\ c.at = 4
        /\ diff[1].tag = "Left"
        /\ diff[2].tag = "Both"
        /\ c.left # <<>>
        /\ c.right # <<>>
        /\ Len(lines(left)) = 3

\* --------------------------------------------------------------------- C29
\* C29: in what a call of write_inline_diff writes, the left line ends with
\* the one reset that closes the style it ended in, directly before its
\* "\n"; the right line starts with the open of light green directly followed
\* by '>', no reset or other escape coming before that open, whether the left
\* line ended light or heavy; the right line is closed the same way and the
\* writer is left in the default style.
C29_FinishClosesAndResets ==
    \A c \in InlineCalls :
        c.ok =>
            LET w == c.wrote
                n == Len(OutLines(w)[1]) + 1
            IN /\ w[n] = NL
               /\ w[n - 1] = RESET
               /\ NotEscape(w[n - 2])
               /\ w[n + 1] = GREEN_LIGHT
               /\ w[n + 2] = SIGN_RIGHT
               /\ w[Len(w)] = NL
               /\ w[Len(w) - 1] = RESET
               /\ NotEscape(w[Len(w) - 2])
               /\ c.style = StyleDefault

\* An inline diff whose left line ends under the heavy style: the last
\* character of the removed line is a Removed one.
C29_Witness ==
    \E c \in InlineCalls :
        /\ c.ok
        /\ c.diff # <<>>
        /\ c.diff[Len(c.diff)].tag = "Left"
        /\ c.right # <<>>
        /\ c.wrote[Len(OutLines(c.wrote)[1]) - 2] = RED_HEAVY

\* --------------------------------------------------------------------- C30
\* C30: two Equal characters with nothing but Inserted characters between
\* them in the character script stand directly next to each other on the
\* left line, no escape between them, both under light red; two Equal
\* characters with nothing but Removed characters between them stand directly
\* next to each other on the right line, both under light green.
C30_SkippedKeepSpan ==
    \A c \in InlineCalls :
        c.ok =>
            LET il == OutLines(c.wrote)
                Joined(line, side, skipped, light) ==
                    \A i \in 1..Len(c.diff) : \A j \in (i + 1)..Len(c.diff) :
                        (/\ c.diff[i].tag = "Both"
                         /\ c.diff[j].tag = "Both"
                         /\ \A m \in (i + 1)..(j - 1) : c.diff[m].tag = skipped) =>
                            /\ RawPos(line, ShownAt(c.diff, j, side)) =
                                   RawPos(line, ShownAt(c.diff, i, side)) + 1
                            /\ line[RawPos(line, ShownAt(c.diff, i, side))] =
                                   c.diff[i].value
                            /\ line[RawPos(line, ShownAt(c.diff, j, side))] =
                                   c.diff[j].value
                            /\ Styled(line, "")[ShownAt(c.diff, i, side)].under = light
                            /\ Styled(line, "")[ShownAt(c.diff, j, side)].under = light
            IN /\ Joined(il[1], "Left", "Right", RED_LIGHT)
               /\ Joined(il[2], "Right", "Left", GREEN_LIGHT)

\* "aba" against "aa": the removed 'b' between the two unchanged 'a' is
\* skipped on the right line, which is one light green span.
C30_Witness ==
    \E c \in InlineCalls :
        /\ c.ok
        /\ c.diff = <<Both("a"), Left("b"), Both("a")>>
        /\ OutLines(c.wrote)[2] = <<GREEN_LIGHT, SIGN_RIGHT, "a", "a", RESET>>

\* --------------------------------------------------------------------- C27
\* C27: the step of write_lines that handles a Removed entry adds to the
\* output nothing but the plain removed line of the line pending before it,
\* if there was one, and leaves the entry's own line pending; whenever the
\* line of a Removed entry is added to the output, the entry has been
\* handled in an earlier step and the step adding it handles a later entry
\* or is the flush after the loop.
C27_RemovedIsDeferred ==
    [][/\ HandleLeft =>
              /\ f' = f \o (IF previous_deletion.value # None
                            THEN PlainLine(Left(previous_deletion.value[1])) \o <<NL>>
                            ELSE <<>>)
              /\ previous_deletion'.value = Some(diff[pos].value)
              /\ Len(OutLines(f')) < pos
       /\ \A i \in (Len(OutLines(f)) + 1)..Len(OutLines(f')) :
              diff[i].tag = "Left" =>
                  /\ i < pos
                  /\ ~HandleLeft => previous_deletion'.value = None
      ]_vars

\* A Removed entry has just been handled while another removed line was
\* pending: the earlier line is the last of the output, the new one pending.
C27_Witness ==
    /\ result = "running"
    /\ pos > 2
    /\ diff[pos - 1].tag = "Left"
    /\ diff[pos - 2].tag = "Left"
    /\ diff[pos - 1].value # diff[pos - 2].value
    /\ previous_deletion.value = Some(diff[pos - 1].value)
    /\ Len(OutLines(f)) = pos - 2
    /\ OutLines(f)[pos - 2] = PlainLine(diff[pos - 2])

\* --------------------------------------------------------------------- C28
\* C28: the output is the entries handled so far written one after the other
\* in script order, the pending removed line excepted, which is the line of
\* the entry handled last: a plain line per entry, or the two lines of the
\* inline diff of a pair, the '<' line with the removed text first and the
\* '>' line with the added text second; so a removed line stands before the
\* line of every later entry, the added lines of its block included, and
\* while it is pending no line of a later entry is in the output.
C28_OutputInScriptOrder ==
    LET n == pos - 1 - Len(previous_deletion.value)
    IN /\ f = Rendered(1, n)
       /\ previous_deletion.value # None => diff[pos - 1].tag = "Left"
       /\ \A c \in InlineCalls :
              /\ c.at <= n
              /\ diff[c.at - 1].tag = "Left"
              /\ diff[c.at].tag = "Right"
              /\ Strip(c.wrote) =
                     <<SIGN_LEFT>> \o diff[c.at - 1].value \o <<NL, SIGN_RIGHT>>
                     \o diff[c.at].value \o <<NL>>

\* Two removed lines replaced by two added lines, all four different from
\* what stands at the same place on the other side, written and returned.
C28_Witness ==
    /\ result = "Ok"
    /\ Len(diff) = 4
    /\ diff[1].tag = "Left"
    /\ diff[2].tag = "Left"
    /\ diff[3].tag = "Right"
    /\ diff[4].tag = "Right"
    /\ diff[1].value # diff[2].value
    /\ diff[3].value # diff[4].value
    /\ inlined = <<>>

\* --------------------------------------------------------------------- C22
\* C22: assert_eq! and assert_str_eq! return without writing anything if ==
\* on the operands returned true and panic if it did not; the panic message
\* starts with the fixed text "assertion failed: (left == right)" in
\* backquotes, directly followed by two newlines when no custom message was
\* given and by ": ", the formatted message and two newlines when one was;
\* the complete message continues with the header line of the diff, one line
\* per entry of the line script of the two texts, and one more newline.
C22_AssertEqPanicMessage ==
    assertion.macro \in {"assert_eq!", "assert_str_eq!"} =>
        LET head == IF assertion.args = None
                    THEN <<ASSERT_EQ_FAILED, NL, NL>>
                    ELSE <<ASSERT_EQ_FAILED, ": ">>
                         \o format(assertion.args[1].fmt, assertion.args[1].values)
                         \o <<NL, NL>>
            body == SubSeq(f, Len(head) + Len(HEADER) + 1, Len(f) - 1)
        IN /\ result # "invoked" => (result = "passed" <=> assertion.eq)
           /\ result = "passed" => f = <<>>
           /\ result \notin {"invoked", "passed"} => SubSeq(f, 1, Len(head)) = head
           /\ result = "panicked" =>
                  /\ f = head \o HEADER \o body \o <<NL>>
                  /\ diff \in diff_lines(left, right)
                  /\ body = Rendered(1, Len(diff))
                  /\ Count(f, IsDiffWord) = 1

\* assert_eq! has panicked with a custom message formatted from a format
\* string with a placeholder, the diff holding an inline pair.
C22_Witness ==
    /\ assertion.macro = "assert_eq!"
    /\ result = "panicked"
    /\ assertion.args = Some([fmt |-> <<"m", Placeholder>>, values |-> <<"7">>])
    /\ SubSeq(f, 1, 6) = <<ASSERT_EQ_FAILED, ": ", "m", "7", NL, NL>>
    /\ inlined # <<>>
    /\ f[Len(f)] = NL
    /\ f[Len(f) - 1] = NL

C25_DerivedMacroRunsBody ==
    assertion.macro \in {"derive_assert_eq!", "derive_assert_ne!"} =>
        /\ result \in {"invoked", "passed", "body"}
        /\ result # "invoked" =>
               (result = "body" <=>
                    IF assertion.macro = "derive_assert_eq!"
                    THEN ~assertion.eq
                    ELSE assertion.eq)
        /\ result = "body" =>
               /\ assertion.body # None
               /\ assertion.body[1].left = left
               /\ assertion.body[1].right = right
               /\ assertion.args = None =>
                      /\ assertion.body[1].has_message = FALSE
                      /\ assertion.body[1].message = <<>>
               /\ assertion.args # None =>
                      /\ assertion.body[1].has_message = TRUE
                      /\ assertion.body[1].message =
                             format(assertion.args[1].fmt, assertion.args[1].values)
        /\ result # "body" => assertion.body = None
        /\ f = <<>>
        /\ diff = <<>>

\* The body of a macro generated by derive_assert_eq! runs with the message
\* formatted from a format string with a placeholder.
C25_Witness ==
    /\ assertion.macro = "derive_assert_eq!"
    /\ result = "body"
    /\ assertion.args = Some([fmt |-> <<"m", Placeholder>>, values |-> <<"7">>])
    /\ assertion.body[1].message = <<"m", "7">>
    /\ assertion.body[1].has_message

\* --------------------------------------------------------------------- C26
\* C26: the step of format_comparison that writes the header writes "Diff"
\* in bold, then in the left style the left marker and the left side's
\* label, which is the override of the left side if the Config has one and
\* "left" if not, then in the right style the right side's label, the
\* override of the right side or "right", and the right marker, whatever the
\* label of the other side is; no step of the renderer changes the Config,
\* and the steps after the header only append to the output.
C26_HeaderNamesSides ==
    [][/\ config' = config
       /\ FormatHeader =>
              f' = <<BOLD, "Diff", RESET, " ", RED_LIGHT, SIGN_LEFT, " ",
                     IF config.maybe_label_left = None
                     THEN "left"
                     ELSE config.maybe_label_left[1],
                     RESET, " / ", GREEN_LIGHT,
                     IF config.maybe_label_right = None
                     THEN "right"
                     ELSE config.maybe_label_right[1],
                     " ", SIGN_RIGHT, RESET, " :", NL>>
       /\ ~FormatHeader => SubSeq(f', 1, Len(f)) = f
      ]_vars

\* A comparison with a replaced line has been rendered with a Config that
\* overrides the left label only: the header names "expect" and "right".
C26_Witness ==
    /\ result = "Ok"
    /\ config.maybe_label_left = Some("expect")
    /\ config.maybe_label_right = None
    /\ f[8] = "expect"
    /\ f[12] = "right"
    /\ \E i \in 2..Len(diff) : diff[i].tag = "Add" /\ diff[i - 1].tag = "Rem"

\* --------------------------------------------------------------------- C31
\* C31: in what write_lines has written, plain lines and the lines of inline
\* diffs alike, no style is open where a line ends; the line of a plain
\* removed or added entry has exactly one opening escape, its first piece,
\* and exactly one reset, its last piece before the newline; the line of an
\* unchanged entry has no escape at all.
C31_NoStyleOpenAtLineEnd ==
    LET ol == OutLines(f)
    IN /\ Terminated(f)
       /\ \A i \in 1..Len(ol) :
              /\ ~OpenAfter(ol[i])
              /\ diff[i].tag = "Both" => \A k \in 1..Len(ol[i]) : NotEscape(ol[i][k])
              /\ diff[i].tag # "Both" /\ ~InlineLine(i) =>
                     /\ Count(ol[i], IsOpen) = 1
                     /\ Count(ol[i], IsReset) = 1
                     /\ IsOpen(ol[i][1])
                     /\ ol[i][Len(ol[i])] = RESET

\* A call has returned that wrote an unchanged line, a plain removed line
\* with text and the two lines of an inline diff.
C31_Witness ==
    /\ result = "Ok"
    /\ inlined # <<>>
    /\ \E i \in 1..Len(diff) : diff[i].tag = "Both"
    /\ \E i \in 1..Len(diff) :
           /\ diff[i].tag = "Left"
           /\ diff[i].value # <<>>
           /\ ~InlineLine(i)

\* --------------------------------------------------------------------- C32
\* C32: whenever a removed line is pending in write_lines, the entry handled
\* last is a Removed entry, the pending value is its line and the count is
\* the length of the run of consecutive Removed entries that ends at it; so
\* the count is 1 exactly when the pending line is the first of its run,
\* whatever count an earlier run, inline diff or flush left behind.
C32_CountIsRunLength ==
    previous_deletion.value # None =>
        /\ pos > 1
        /\ diff[pos - 1].tag = "Left"
        /\ previous_deletion.value = Some(diff[pos - 1].value)
        /\ previous_deletion.count = pos - RunStart(pos - 1)
        /\ previous_deletion.count = 1 <=>
               (pos = 2 \/ diff[pos - 2].tag # "Left")

\* A run of two Removed entries was written plainly before an Inserted
\* entry, leaving the count at 2, and the Removed entry after that has just
\* been handled: its line is pending with count 1.
C32_Witness ==
    /\ result = "running"
    /\ pos = 5
    /\ diff[1].tag = "Left"
    /\ diff[2].tag = "Left"
    /\ diff[3].tag = "Right"
    /\ diff[4].tag = "Left"
    /\ previous_deletion = [value |-> Some(diff[4].value), count |-> 1]

\* --------------------------------------------------------------------- C33
\* C33: in write_lines a removed line is pending only while the call is
\* running and the entry handled last is a Removed entry; after an Equal
\* entry or an Inserted entry has been handled, written plainly or as an
\* inline diff, and before the first entry, nothing is pending.
C33_PendingOnlyAfterRemoved ==
    /\ previous_deletion.value # None =>
           /\ result = "running"
           /\ pos > 1
           /\ diff[pos - 1].tag = "Left"
    /\ pos = 1 => previous_deletion.value = None
    /\ pos > 1 /\ diff[pos - 1].tag \in {"Both", "Right"} =>
           previous_deletion.value = None

\* The Inserted entry after a run of two Removed entries has just been
\* handled: take gave nothing, both removed lines are written and nothing is
\* pending, with the count still 2.
C33_Witness ==
    /\ result = "running"
    /\ pos = 4
    /\ diff[1].tag = "Left"
    /\ diff[2].tag = "Left"
    /\ diff[3].tag = "Right"
    /\ previous_deletion = [value |-> None, count |-> 2]
    /\ Len(OutLines(f)) = 3

\* --------------------------------------------------------------------- C37
\* C37: a call of flush leaves no value set; one made while a value is set
\* writes that line once, as a plain removed line, and keeps the count; one
\* made while no value is set writes nothing and sets the count to 0; and
\* only set puts a value into the slot.  So of two calls of flush with no
\* set in between, the second writes nothing and only resets the count, and
\* the pending line is written at most once.
C37_FlushTwiceWritesOnce ==
    [][/\ CallFlush =>
              /\ previous_deletion'.value = None
              /\ returned'.ok
              /\ previous_deletion.value # None =>
                     /\ f' = f \o PlainLine(Left(previous_deletion.value[1])) \o <<NL>>
                     /\ previous_deletion'.count = previous_deletion.count
              /\ previous_deletion.value = None =>
                     /\ f' = f
                     /\ previous_deletion'.count = 0
              /\ returned.call = "flush" =>
                     /\ f' = f
                     /\ previous_deletion' = LatentDeletion_default
       /\ previous_deletion.value = None /\ previous_deletion'.value # None =>
              CallSet
      ]_vars

\* flush has been called twice in a row after one set: the line stands once
\* in the output and the second call has reset the count.
C37_Witness ==
    /\ result = "LatentDeletion"
    /\ returned.call = "flush"
    /\ previous_deletion = LatentDeletion_default
    /\ f = PlainLine(Left(<<"a">>)) \o <<NL>>

\* --------------------------------------------------------------------- C38
\* C38: take returns the pending line and clears the slot if a value is set
\* and the count is 1; otherwise, no value being set or the count being
\* another number, it returns None and leaves value and count as they are;
\* it never writes and never changes the count.  A flush that follows a take
\* which returned None with a value pending writes that value as a plain
\* removed line.
C38_TakeOnlyAtCountOne ==
    [][/\ CallTake =>
              /\ f' = f
              /\ previous_deletion'.count = previous_deletion.count
              /\ IF previous_deletion.value # None /\ previous_deletion.count = 1
                 THEN /\ returned'.call = "take"
                      /\ returned'.taken = previous_deletion.value
                      /\ previous_deletion'.value = None
                 ELSE /\ returned'.call = "take"
                      /\ returned'.taken = None
                      /\ previous_deletion' = previous_deletion
       /\ CallFlush /\ returned.call = "take" /\ returned.taken = None
                    /\ previous_deletion.value # None =>
              f' = f \o PlainLine(Left(previous_deletion.value[1])) \o <<NL>>
      ]_vars

\* take has just returned None for the second line of a run, which is still
\* pending after the first line was flushed.
C38_Witness ==
    /\ result = "LatentDeletion"
    /\ returned.call = "take"
    /\ returned.taken = None
    /\ previous_deletion = [value |-> Some(<<"b">>), count |-> 2]
    /\ f = PlainLine(Left(<<"a">>)) \o <<NL>>

\* --------------------------------------------------------------------- C35
\* C35: write_lines returns for every script; each step of the walk moves
\* the iterator past exactly the one entry it handles, the arm that peeks at
\* the following entry included, and never touches the script; it returns
\* Ok only through the flush after the loop, made once all entries have been
\* handled and made once, since the call has returned after it.
C35_WalkTerminates ==
    /\ <>(result \in {"Ok", "Err"})
    /\ [](result = "Ok" => pos = Len(diff) + 1)
    /\ [][/\ diff' = diff
          /\ pos' # pos =>
                 /\ pos' = pos + 1
                 /\ pos <= Len(diff)
                 /\ result = "running"
          /\ FinalFlush =>
                 /\ pos = Len(diff) + 1
                 /\ pos' = pos
                 /\ result' \in {"Ok", "Err"}
          /\ result' = "Ok" => FinalFlush
          /\ result # "running" => UNCHANGED vars
         ]_vars

\* A call has returned Ok after a walk over three entries in which the arm
\* for an Inserted entry followed by another Inserted entry ran.
C35_Witness ==
    /\ result = "Ok"
    /\ Len(diff) = 3
    /\ pos = 4
    /\ \E i \in 1..2 : diff[i].tag = "Right" /\ diff[i + 1].tag = "Right"
    /\ Len(OutLines(f)) = 3

\* --------------------------------------------------------------------- C36
\* C36: for a script in which every Removed run and every Inserted run has
\* one line, what the current write_lines has written when it returns Ok is
\* what the older write_lines writes for the same script; so the outputs of
\* the two differ only for a script with a run of two or more lines.
C36_OlderAgreesOnSingleLineRuns ==
    result = "Ok" /\ NoLongRun => f = old_write_lines(FreshCall, 1).f

\* The current write_lines has returned Ok on a script of single-line runs
\* with an inline diff, a Removed line flushed after it and an Equal line.
C36_Witness ==
    /\ result = "Ok"
    /\ NoLongRun
    /\ inlined # <<>>
    /\ \E i \in 1..Len(diff) : diff[i].tag = "Both"
    /\ \E i \in 2..Len(diff) : diff[i].tag = "Left" /\ diff[i - 1].tag = "Right"
    /\ f = old_write_lines(FreshCall, 1).f

\* --------------------------------------------------------------------- C34
\* C34: when the entry-by-entry walk of write_lines returns Ok, what it has
\* written is what the run-based machine with the states Empty,
\* PendingSingle(line) and PendingMulti(lines) writes for the same script,
\* and the Inserted entries it wrote as an inline diff are those the machine
\* reaches in the state PendingSingle with an Inserted run of one line; all
\* other lines are plain.
C34_WalkEqualsRunMachine ==
    result = "Ok" =>
        LET m == run_machine(run_machine_start, 1)
        IN /\ f = m.f
           /\ {c.at : c \in InlineCalls} = m.at

\* The walk has returned Ok on a script in which a Removed line is followed
\* by two Inserted lines, all three written plainly, and a further Removed
\* line by one Inserted line, the two written as an inline diff.
C34_Witness ==
    /\ result = "Ok"
    /\ Len(diff) = 5
    /\ diff[1].tag = "Left"
    /\ diff[2].tag = "Right"
    /\ diff[3].tag = "Right"
    /\ diff[4].tag = "Left"
    /\ diff[5].tag = "Right"
    /\ {c.at : c \in InlineCalls} = {5}
    /\ f = run_machine(run_machine_start, 1).f
====
